---- MODULE Spec2Model ----
(***************************************************************************)
(* Wealthsimple CSV Exporter: the extraction and normalisation pipeline of *)
(* content.js (current version) and of the earlier single-pass version of  *)
(* the content script, the CSV exporter, and the page they read.           *)
(*                                                                         *)
(* Text is a sequence of characters.  A character is a one-character       *)
(* string; a character outside ASCII is written by its name.  The fixed    *)
(* phrases of button labels, alerts and error messages are written as one  *)
(* piece each.                                                             *)
(*                                                                         *)
(* The sync path: the sync button's handler, the settings read,            *)
(* syncToActualBudget, the relay of background.js and the callbacks and    *)
(* timers that change the button.                                          *)
(***************************************************************************)
EXTENDS Integers, Sequences, FiniteSets, TLC

VARIABLES
    doc,        \* the sibling elements of the activity list
    version,    \* which content script runs: "current" or "legacy"
    pc,         \* "page", "clicked", "records" or "exported"
    result,     \* what the last extractTransactions call returned
    csv,        \* the text handed to the last download
    today,      \* new Date(): the current calendar day
    engine,     \* how new Date(text) treats a day past the month's end
    alerts,     \* the alerts shown, oldest first
    downloads,  \* the number of downloads started
    settings,   \* the content of chrome.storage.sync
    btn,        \* the sync button: its label and inline style
    syncs,      \* the sync attempts started, oldest first
    timers,     \* the pending 3-second timeouts, in the order they were set
    foreign,    \* what other parts did: messages to the relay, settings saved
    scroll,     \* the locals of a call of autoScrollToLoadAll and the page height
    place       \* the page's title and URL, the inserted buttons, what is pending

vars == <<doc, version, pc, result, csv, today, engine, alerts, downloads,
          settings, btn, syncs, timers, foreign, scroll, place>>

\* the clock and the engine
envVars == <<today, engine>>

\* the state of the sync path
syncVars == <<settings, btn, syncs, timers, foreign>>

\* the state of the scroll loop and of the button placement
uiVars == <<scroll, place>>

(***************************************************************************)
(* Bounds of the model.                                                    *)
(***************************************************************************)
MaxNodes == 4
MaxAmountLen == 3
MaxFields == 5
MaxRecords == 2
MaxPositioned == 3

(***************************************************************************)
(* Characters.                                                             *)
(***************************************************************************)
EnDash == "U+2013"
EmDash == "U+2014"
UnicodeMinus == "U+2212"
ACircumflex == "U+00E2"
ModifierCircumflex == "U+02C6"
RightSingleQuote == "U+2019"
EuroSign == "U+20AC"
LeftDoubleQuote == "U+201C"
RightDoubleQuote == "U+201D"
NewLine == "\n"
Backslash == "\\"
DoubleQuote == "\""

Digits == <<"0", "1", "2", "3", "4", "5", "6", "7", "8", "9">>
Upper == <<"A", "B", "C", "D", "E", "F", "G", "H", "I", "J", "K", "L", "M",
           "N", "O", "P", "Q", "R", "S", "T", "U", "V", "W", "X", "Y", "Z">>
Lower == <<"a", "b", "c", "d", "e", "f", "g", "h", "i", "j", "k", "l", "m",
           "n", "o", "p", "q", "r", "s", "t", "u", "v", "w", "x", "y", "z">>

Range(s) == {s[i] : i \in 1..Len(s)}

\* \d of a JavaScript regular expression
IsDigit(c) == c \in Range(Digits)

\* \w of a JavaScript regular expression
IsWordChar(c) == c \in Range(Digits) \cup Range(Upper) \cup Range(Lower) \cup {"_"}

\* \s of a JavaScript regular expression, and the characters trim() removes
IsSpace(c) == c \in {" ", "\t", NewLine}

DigitValue(c) == (CHOOSE i \in 1..10 : Digits[i] = c) - 1

\* the elements of s that satisfy Keep, in order
Filter(s, Keep(_)) == SelectSeq(s, Keep)

\* concatenation of a sequence of texts, sep between neighbours: Array.join
RECURSIVE Join(_, _)
Join(parts, sep) ==
    IF Len(parts) = 0 THEN <<>>
    ELSE IF Len(parts) = 1 THEN parts[1]
    ELSE parts[1] \o sep \o Join(Tail(parts), sep)

\* String.prototype.trim
Trim(s) ==
    LET idx == {i \in 1..Len(s) : ~IsSpace(s[i])}
    IN  IF idx = {} THEN <<>>
        ELSE LET lo == CHOOSE i \in idx : \A j \in idx : i <= j
                 hi == CHOOSE i \in idx : \A j \in idx : i >= j
             IN  SubSeq(s, lo, hi)

\* String.prototype.toLowerCase, on the letters of the model
ToLowerChar(c) ==
    IF c \in Range(Upper) THEN Lower[CHOOSE i \in 1..26 : Upper[i] = c] ELSE c

toLowerCase(s) == [i \in 1..Len(s) |-> ToLowerChar(s[i])]

\* decimal text of a natural number
RECURSIVE NatToText(_)
NatToText(n) ==
    IF n < 10 THEN <<Digits[n + 1]>>
    ELSE NatToText(n \div 10) \o <<Digits[(n % 10) + 1]>>

\* String(n) of an integer
IntToText(n) == IF n < 0 THEN <<"-">> \o NatToText(-n) ELSE NatToText(n)

RECURSIVE DigitsValue(_)
DigitsValue(ds) ==
    IF Len(ds) = 0 THEN 0
    ELSE 10 * DigitsValue(SubSeq(ds, 1, Len(ds) - 1)) + DigitValue(ds[Len(ds)])

RECURSIVE Pow10(_)
Pow10(k) == IF k = 0 THEN 1 ELSE 10 * Pow10(k - 1)

\* length of the longest prefix of s whose characters all satisfy P
PrefixLen(s, P(_)) ==
    CHOOSE n \in 0..Len(s) :
        /\ \A i \in 1..n : P(s[i])
        /\ n = Len(s) \/ ~P(s[n + 1])

(***************************************************************************)
(* Numbers.  A JavaScript number read from decimal text is kept as an      *)
(* exact decimal: mant * 10^(-scale), negated when neg (so -0 is neg with  *)
(* mant 0), or NaN.  Trailing zeros of the fraction are dropped, so equal  *)
(* numbers are equal records.  Binary rounding of the double is outside    *)
(* the model: where the code rounds, the model rounds the exact decimal.   *)
(***************************************************************************)
NaN == [nan |-> TRUE, neg |-> FALSE, mant |-> 0, scale |-> 0]

RECURSIVE Normalize(_)
Normalize(x) ==
    IF x.scale > 0 /\ x.mant % 10 = 0
    THEN Normalize([x EXCEPT !.mant = x.mant \div 10, !.scale = x.scale - 1])
    ELSE x

isNaN(x) == x.nan

IsNegative(x) == ~x.nan /\ x.neg /\ x.mant > 0

\* parseFloat on text: leading white space, an optional sign, digits, an
\* optional point and digits; the longest such prefix is the number and the
\* rest is ignored; no digit at all is NaN.  (The exponent and "Infinity"
\* forms need a letter, which the cleaning has removed before every call.)
parseFloat(s) ==
    LET t      == SubSeq(s, PrefixLen(s, IsSpace) + 1, Len(s))
        signed == Len(t) > 0 /\ t[1] \in {"-", "+"}
        body   == IF signed THEN Tail(t) ELSE t
        n1     == PrefixLen(body, IsDigit)
        ip     == SubSeq(body, 1, n1)
        rest   == SubSeq(body, n1 + 1, Len(body))
        hasDot == Len(rest) > 0 /\ rest[1] = "."
        fp     == IF hasDot
                  THEN SubSeq(rest, 2, 1 + PrefixLen(Tail(rest), IsDigit))
                  ELSE <<>>
    IN  IF Len(ip) + Len(fp) = 0 THEN NaN
        ELSE Normalize([nan |-> FALSE, neg |-> signed /\ t[1] = "-",
                        mant |-> DigitsValue(ip \o fp), scale |-> Len(fp)])

\* |x| * 100 rounded to an integer, a half rounded up when halfUp and down
\* otherwise
RoundedHundredths(x, halfUp) ==
    IF x.scale <= 2 THEN x.mant * Pow10(2 - x.scale)
    ELSE LET d == Pow10(x.scale - 2)
             q == x.mant \div d
             r == x.mant % d
         IN  IF 2 * r > d \/ (halfUp /\ 2 * r = d) THEN q + 1 ELSE q

\* Math.round(x * 100): the nearest integer, a half rounded towards +infinity
MathRoundTimes100(x) ==
    IF x.neg THEN 0 - RoundedHundredths(x, FALSE) ELSE RoundedHundredths(x, TRUE)

\* Number.prototype.toFixed(2) of a finite number below 10^21: sign, integer
\* part, point, two digits (the nearer value, the larger of two equally near)
toFixed2(x) ==
    LET n  == RoundedHundredths(x, TRUE)
        ds == NatToText(n)
        pd == IF Len(ds) < 3 THEN SubSeq(<<"0", "0", "0">>, 1, 3 - Len(ds)) \o ds ELSE ds
    IN  (IF IsNegative(x) THEN <<"-">> ELSE <<>>)
        \o SubSeq(pd, 1, Len(pd) - 2) \o <<".">> \o SubSeq(pd, Len(pd) - 1, Len(pd))

\* String(x) of a NaN
NaNText == <<"N", "a", "N">>

(***************************************************************************)
(* Dates.  A Date object is a calendar day in local time, or invalid.      *)
(***************************************************************************)
InvalidDate == [valid |-> FALSE, y |-> 0, m |-> 0, d |-> 0]

MonthNames ==
    << <<"J", "a", "n", "u", "a", "r", "y">>,
       <<"F", "e", "b", "r", "u", "a", "r", "y">>,
       <<"M", "a", "r", "c", "h">>,
       <<"A", "p", "r", "i", "l">>,
       <<"M", "a", "y">>,
       <<"J", "u", "n", "e">>,
       <<"J", "u", "l", "y">>,
       <<"A", "u", "g", "u", "s", "t">>,
       <<"S", "e", "p", "t", "e", "m", "b", "e", "r">>,
       <<"O", "c", "t", "o", "b", "e", "r">>,
       <<"N", "o", "v", "e", "m", "b", "e", "r">>,
       <<"D", "e", "c", "e", "m", "b", "e", "r">> >>

IsLeapYear(y) == (y % 4 = 0 /\ y % 100 # 0) \/ y % 400 = 0

DaysInMonth(y, m) ==
    IF m = 2 THEN (IF IsLeapYear(y) THEN 29 ELSE 28)
    ELSE IF m \in {4, 6, 9, 11} THEN 30 ELSE 31

\* date.setDate(date.getDate() - 1): the calendar day before
PreviousDay(t) ==
    IF t.d > 1 THEN [t EXCEPT !.d = t.d - 1]
    ELSE IF t.m > 1 THEN [t EXCEPT !.m = t.m - 1, !.d = DaysInMonth(t.y, t.m - 1)]
    ELSE [t EXCEPT !.y = t.y - 1, !.m = 12, !.d = 31]

\* Date.prototype.setFullYear(y): an invalid date becomes 1 January of y (its
\* time value is taken as +0); 29 February of a common year becomes 1 March
setFullYear(t, y) ==
    IF ~t.valid THEN [valid |-> TRUE, y |-> y, m |-> 1, d |-> 1]
    ELSE IF t.d > DaysInMonth(y, t.m) THEN [valid |-> TRUE, y |-> y, m |-> t.m + 1, d |-> 1]
    ELSE [t EXCEPT !.y = y]

\* the words of s: its maximal runs of characters other than space and comma
RECURSIVE Words(_)
Words(s) ==
    LET IsSep(c) == c \in {" ", ","}
        IsTok(c) == ~IsSep(c)
        k == PrefixLen(s, IsSep)
        t == SubSeq(s, k + 1, Len(s))
        n == PrefixLen(t, IsTok)
    IN  IF Len(t) = 0 THEN <<>>
        ELSE <<SubSeq(t, 1, n)>> \o Words(SubSeq(t, n + 1, Len(t)))

\* the month a word names by its first three letters, 0 when none
MonthOf(w) ==
    LET hit == {i \in 1..12 : Len(w) >= 3 /\
                  toLowerCase(SubSeq(w, 1, 3)) = toLowerCase(SubSeq(MonthNames[i], 1, 3))}
    IN  IF hit = {} THEN 0 ELSE CHOOSE i \in hit : TRUE

AllDigits(w) == Len(w) > 0 /\ \A i \in 1..Len(w) : IsDigit(w[i])

\* the year the engine's date parser gives a text without a year
EngineDefaultYear == 2001

\* new Date(text) for the free-form texts of the page: a month word, a day
\* and an optional 4-digit year; every other text is an invalid date.  The
\* format is not ISO, so what a day past the end of the month (up to 31)
\* gives is the engine's choice: it is carried into the next month, or the
\* date is invalid
DateFromText(s) ==
    LET ws == Words(s)
    IN  IF /\ Len(ws) \in {2, 3}
           /\ MonthOf(ws[1]) # 0
           /\ AllDigits(ws[2]) /\ Len(ws[2]) <= 2
           /\ Len(ws) = 3 => AllDigits(ws[3]) /\ Len(ws[3]) = 4
        THEN LET y == IF Len(ws) = 3 THEN DigitsValue(ws[3]) ELSE EngineDefaultYear
                 m == MonthOf(ws[1])
                 d == DigitsValue(ws[2])
             IN  IF d \in 1..DaysInMonth(y, m)
                 THEN [valid |-> TRUE, y |-> y, m |-> m, d |-> d]
                 ELSE IF d \in 1..31 /\ engine = "carry"
                 THEN [valid |-> TRUE, y |-> y, m |-> m + 1, d |-> d - DaysInMonth(y, m)]
                 ELSE InvalidDate
        ELSE InvalidDate

\* /\d{4}/.test(s)
HasFourDigitRun(s) ==
    \E i \in 1..(Len(s) - 3) : \A j \in 0..3 : IsDigit(s[i + j])

Pad2(n) == IF n < 10 THEN <<"0">> \o NatToText(n) ELSE NatToText(n)

\* toLocaleDateString("en-US", {year: "numeric", month: "long", day: "2-digit"})
toLocaleDateString(t) ==
    IF ~t.valid THEN <<"I", "n", "v", "a", "l", "i", "d", " ", "D", "a", "t", "e">>
    ELSE MonthNames[t.m] \o <<" ">> \o Pad2(t.d) \o <<",", " ">> \o NatToText(t.y)

TextToday == <<"T", "o", "d", "a", "y">>
TextYesterday == <<"Y", "e", "s", "t", "e", "r", "d", "a", "y">>

\* the day the pages of the structural specifications are read on
Today == [valid |-> TRUE, y |-> 2025, m |-> 7, d |-> 1]

parseDate(dateStr) ==
    LET date == IF dateStr = TextToday THEN today
                ELSE IF dateStr = TextYesterday THEN PreviousDay(today)
                ELSE IF ~HasFourDigitRun(dateStr)
                     THEN setFullYear(DateFromText(dateStr), today.y)
                     ELSE DateFromText(dateStr)
    IN  toLocaleDateString(date)

\* the text left as it is
KeepWhitespace(s) == s

\* .replace(/\s+/g, "")
RemoveWhitespace(s) == LET NotSpace(c) == ~IsSpace(c) IN Filter(s, NotSpace)

generateImportId(date, amount, merchant) ==
    LET amountForId == MathRoundTimes100(amount)
        amountText  == IF amount.nan THEN NaNText ELSE IntToText(amountForId)
    IN  toLowerCase(RemoveWhitespace(
            <<"w", "s", "-">> \o date \o <<"-">> \o amountText \o <<"-">> \o merchant))

(***************************************************************************)
(* The page.  The document is the sequence of the sibling elements of the  *)
(* activity list, in document order.  An element is a heading (h2, with or *)
(* without the attribute data-fs-privacy-rule="unmask", its text and the   *)
(* bottom edge of its box) or a container (any other element) holding      *)
(* button rows in document order.  A row has its p elements' texts, the    *)
(* top edge of its box, and whether it carries the generated class names   *)
(* the earlier version of the script selects by.                           *)
(***************************************************************************)
Heading(marker, text, bottom) ==
    [tag |-> "H2", marker |-> marker, text |-> text, bottom |-> bottom, buttons |-> <<>>]

Container(buttons) ==
    [tag |-> "DIV", marker |-> FALSE, text |-> <<>>, bottom |-> 0, buttons |-> buttons]

Button(ps, top, styled) == [ps |-> ps, top |-> top, styled |-> styled]

\* concatenation of a sequence of sequences
RECURSIVE Flatten(_)
Flatten(ss) == IF Len(ss) = 0 THEN <<>> ELSE ss[1] \o Flatten(Tail(ss))

\* /[\d$]/.test(text)
LooksLikeAmount(text) == \E i \in 1..Len(text) : IsDigit(text[i]) \/ text[i] = "$"

\* the character class of the first replace of the amount cleaning, as the
\* source file holds it
MinusGlyphClass ==
    {ACircumflex, ModifierCircumflex, RightSingleQuote, EuroSign,
     LeftDoubleQuote, RightDoubleQuote, UnicodeMinus}

\* .replace(/[...]/g, '-').replace(/[^\d.-]/g, '')
CleanAmount(text) ==
    LET replaced == [i \in 1..Len(text) |->
                        IF text[i] \in MinusGlyphClass THEN "-" ELSE text[i]]
        Kept(c)  == IsDigit(c) \/ c \in {".", "-"}
    IN  Filter(replaced, Kept)

\* category and notes of a row from its interior p elements
CategoryOf(ps) == IF Len(ps) > 2 THEN Trim(ps[2]) ELSE <<>>

\* notes that run on through the last p element
NotesOfThroughLast(ps) ==
    IF Len(ps) > 3
    THEN Join([i \in 1..(Len(ps) - 2) |-> Trim(ps[i + 2])], <<" ", "|", " ">>)
    ELSE <<>>

NotesOf(ps) ==
    IF Len(ps) > 3
    THEN Join([i \in 1..(Len(ps) - 3) |-> Trim(ps[i + 2])], <<" ", "|", " ">>)
    ELSE <<>>

Transaction(date, amount, payee, notes, category, importId) ==
    [id |-> <<>>, date |-> date, amount |-> amount, payee |-> payee,
     notes |-> notes, category |-> category, import_id |-> importId]

\* a push that does not look at the set of import ids seen
PushAlways(acc, tx) ==
    [transactions |-> Append(acc.transactions, tx),
     seenTransactions |-> acc.seenTransactions \cup {tx.import_id}]

\* a guarded push at the front of the list
PushIfNewFront(acc, tx) ==
    IF tx.import_id \in acc.seenTransactions THEN acc
    ELSE [transactions |-> <<tx>> \o acc.transactions,
          seenTransactions |-> acc.seenTransactions \cup {tx.import_id}]

\* the append guarded by the set of import ids seen in this call
PushIfNew(acc, tx) ==
    IF tx.import_id \in acc.seenTransactions THEN acc
    ELSE [transactions |-> Append(acc.transactions, tx),
          seenTransactions |-> acc.seenTransactions \cup {tx.import_id}]

\* the innermost test of both strategies: a parsed amount is pushed unless
\* it is NaN or its import id was seen
PushParsed(acc, paragraphs, merchant, amountValue, parsedDate) ==
    IF ~isNaN(amountValue)
    THEN PushIfNew(acc,
           Transaction(parsedDate, amountValue, merchant,
                       NotesOf(paragraphs), CategoryOf(paragraphs),
                       generateImportId(parsedDate, amountValue, merchant)))
    ELSE acc

\* strategy 1, from "Check if this looks like an amount" on
AcceptPhase1(acc, paragraphs, merchant, rawAmountText, currentDate) ==
    IF LooksLikeAmount(rawAmountText)
    THEN PushParsed(acc, paragraphs, merchant,
                    parseFloat(CleanAmount(rawAmountText)), parseDate(currentDate))
    ELSE acc

\* body of buttons.forEach of strategy 1, for one button under the header
\* text currentDate
ProcessButtonPhase1(acc, currentDate, button) ==
    IF Len(button.ps) >= 2
    THEN AcceptPhase1(acc, button.ps, Trim(button.ps[1]),
                      Trim(button.ps[Len(button.ps)]), currentDate)
    ELSE acc

\* the tag at which the sibling walk of strategy 1 stops
StopsWalk(el) == el.tag = "H2"

\* last index of the sibling walk that starts after the header at index h
WalkEnd(document, h) ==
    CHOOSE e \in h..Len(document) :
        /\ \A i \in (h + 1)..e : ~StopsWalk(document[i])
        /\ e = Len(document) \/ StopsWalk(document[e + 1])

\* indexes of the elements h2[data-fs-privacy-rule="unmask"], in order
DateHeaders(document) ==
    LET IsHeader(i) == document[i].tag = "H2" /\ document[i].marker
    IN  SelectSeq([i \in 1..Len(document) |-> i], IsHeader)

\* the (header text, button) pairs strategy 1 visits, in the order it visits
Phase1Visits(document) ==
    LET hs == DateHeaders(document)
        OfHeader(h) ==
            LET rows == Flatten([k \in 1..(WalkEnd(document, h) - h) |->
                                    document[h + k].buttons])
            IN  [j \in 1..Len(rows) |->
                    [date |-> Trim(document[h].text), button |-> rows[j], header |-> h]]
    IN  Flatten([n \in 1..Len(hs) |-> OfHeader(hs[n])])

RECURSIVE RunPhase1(_, _)
RunPhase1(acc, visits) ==
    IF Len(visits) = 0 THEN acc
    ELSE RunPhase1(ProcessButtonPhase1(acc, visits[1].date, visits[1].button),
                   Tail(visits))

\* whether text holds the word w, letter case ignored
ContainsIgnoreCase(text, w) ==
    \E i \in 1..(Len(text) - Len(w) + 1) :
        toLowerCase(SubSeq(text, i, i + Len(w) - 1)) = toLowerCase(w)

\* /today|yesterday|\d|\w{3,}/i.test(text)
IsDateLike(text) ==
    \/ ContainsIgnoreCase(text, TextToday)
    \/ ContainsIgnoreCase(text, TextYesterday)
    \/ \E i \in 1..Len(text) : IsDigit(text[i])
    \/ \E i \in 1..(Len(text) - 2) : \A j \in 0..2 : IsWordChar(text[i + j])

\* the vertical distance at and beyond which strategy 2 associates no header
MaxDistance == 2000

\* first pass of strategy 2: the entries of dateMap in insertion order
DateMap(document) ==
    LET IsEntry(el) == el.tag = "H2" /\ IsDateLike(Trim(el.text))
        hs == SelectSeq(document, IsEntry)
    IN  [i \in 1..Len(hs) |-> [date |-> Trim(hs[i].text), bottom |-> hs[i].bottom]]

\* a step of dateMap.forEach without the bound on the distance
CloserHeaderUnbounded(best, info, top) ==
    IF top > info.bottom
    THEN LET distance == top - info.bottom
         IN  IF best.unset \/ distance < best.closestDistance
             THEN [closestDate |-> info.date, closestDistance |-> distance, unset |-> FALSE]
             ELSE best
    ELSE best

\* one step of dateMap.forEach for a button whose box starts at top; best
\* holds closestDate and closestDistance (unset is the initial Infinity)
CloserHeader(best, info, top) ==
    IF top > info.bottom
    THEN LET distance == top - info.bottom
         IN  IF (best.unset \/ distance < best.closestDistance) /\ distance < MaxDistance
             THEN [closestDate |-> info.date, closestDistance |-> distance, unset |-> FALSE]
             ELSE best
    ELSE best

RECURSIVE ClosestHeader(_, _, _)
ClosestHeader(best, dateMap, top) ==
    IF Len(dateMap) = 0 THEN best
    ELSE ClosestHeader(CloserHeader(best, dateMap[1], top), Tail(dateMap), top)

\* closestDate of a button after dateMap.forEach, '' when none was set
ClosestDate(dateMap, top) ==
    ClosestHeader([closestDate |-> <<>>, closestDistance |-> 0, unset |-> TRUE],
                  dateMap, top).closestDate

\* document.querySelectorAll('button[type="button"]'), in document order
AllButtons(document) == Flatten([i \in 1..Len(document) |-> document[i].buttons])

\* strategy 2, from the amount and merchant test on
AcceptPhase2(acc, paragraphs, potentialMerchant, potentialAmount, closestDate) ==
    IF LooksLikeAmount(potentialAmount) /\ Len(potentialMerchant) > 0
    THEN PushParsed(acc, paragraphs, potentialMerchant,
                    parseFloat(CleanAmount(potentialAmount)), parseDate(closestDate))
    ELSE acc

\* body of allButtons.forEach of strategy 2, for one button and its
\* closestDate
ProcessButtonPhase2(acc, closestDate, button) ==
    IF Len(closestDate) > 0 /\ Len(button.ps) >= 2
    THEN AcceptPhase2(acc, button.ps, Trim(button.ps[1]),
                      Trim(button.ps[Len(button.ps)]), closestDate)
    ELSE acc

\* the (closestDate, button) pairs strategy 2 visits, in the order it visits
Phase2Visits(document) ==
    LET bs == AllButtons(document)
        dm == DateMap(document)
    IN  [j \in 1..Len(bs) |-> [date |-> ClosestDate(dm, bs[j].top), button |-> bs[j]]]

RECURSIVE RunPhase2(_, _)
RunPhase2(acc, visits) ==
    IF Len(visits) = 0 THEN acc
    ELSE RunPhase2(ProcessButtonPhase2(acc, visits[1].date, visits[1].button),
                   Tail(visits))

\* transactions and seenTransactions at the start of a call
NothingSeen == [transactions |-> <<>>, seenTransactions |-> {}]

\* the state after strategy 1
Strategy1(document) == RunPhase1(NothingSeen, Phase1Visits(document))

\* strategy 2 run whatever strategy 1 left
RunsStrategy2Always(acc) == TRUE

\* whether strategy 2 runs on what strategy 1 left
RunsStrategy2(acc) == Len(acc.transactions) = 0

\* strategy 2 on what strategy 1 left, when that is nothing
Strategy2(after1, document) ==
    IF RunsStrategy2(after1)
    THEN RunPhase2(after1, Phase2Visits(document)).transactions
    ELSE after1.transactions

extractTransactions(document) == Strategy2(Strategy1(document), document)

(***************************************************************************)
(* The earlier version of the content script: one pass over the marked     *)
(* headings and the rows with the generated class names.  In such a row    *)
(* the merchant element is the first p and the amount element the last p;  *)
(* a row with fewer than two p elements lacks one of them.                 *)
(***************************************************************************)
LegacyCleanAmount(text) ==
    LET replaced == [i \in 1..Len(text) |->
                        IF text[i] = UnicodeMinus THEN "-" ELSE text[i]]
        Kept(c)  == IsDigit(c) \/ c \in {".", "-"}
    IN  Filter(replaced, Kept)

Zero == [nan |-> FALSE, neg |-> FALSE, mant |-> 0, scale |-> 0]

\* the amount the earlier version records for a cleaned amount text
OrZero(amountValue) == IF isNaN(amountValue) THEN Zero ELSE amountValue

LegacyAmount(cleanedAmount) == OrZero(parseFloat(cleanedAmount))

LegacyPush(transactions, parsedDate, amountValue, merchant) ==
    Append(transactions,
           Transaction(parsedDate, amountValue, merchant, <<>>, <<>>,
                       generateImportId(parsedDate, amountValue, merchant)))

\* body of elements.forEach, for one row under the header text currentDate
LegacyProcessRow(transactions, currentDate, button) ==
    IF Len(button.ps) < 2 THEN transactions
    ELSE LegacyPush(transactions, parseDate(currentDate),
                    LegacyAmount(LegacyCleanAmount(Trim(button.ps[Len(button.ps)]))),
                    Trim(button.ps[1]))

RECURSIVE LegacyRows(_, _, _)
LegacyRows(transactions, currentDate, rows) ==
    IF Len(rows) = 0 THEN transactions
    ELSE LegacyRows(IF rows[1].styled
                    THEN LegacyProcessRow(transactions, currentDate, rows[1])
                    ELSE transactions,
                    currentDate, Tail(rows))

RECURSIVE LegacyWalk(_, _, _)
LegacyWalk(transactions, currentDate, elements) ==
    IF Len(elements) = 0 THEN transactions
    ELSE LET el == elements[1]
         IN  IF el.tag = "H2"
             THEN LegacyWalk(transactions,
                             IF el.marker THEN Trim(el.text) ELSE currentDate,
                             Tail(elements))
             ELSE LegacyWalk(LegacyRows(transactions, currentDate, el.buttons),
                             currentDate, Tail(elements))

legacyExtractTransactions(document) == LegacyWalk(<<>>, <<>>, document)

(***************************************************************************)
(* The CSV exporter.                                                       *)
(***************************************************************************)
CsvHeaders ==
    << <<"i", "d">>, <<"d", "a", "t", "e">>, <<"a", "m", "o", "u", "n", "t">>,
       <<"p", "a", "y", "e", "e">>, <<"n", "o", "t", "e", "s">>,
       <<"c", "a", "t", "e", "g", "o", "r", "y">>,
       <<"i", "m", "p", "o", "r", "t", "_", "i", "d">> >>

\* tx[h] for the h-th header, as text: a finite number by toFixed(2), String
\* of any other value
FieldText(tx, h) ==
    IF h = 1 THEN tx.id
    ELSE IF h = 2 THEN tx.date
    ELSE IF h = 3 THEN (IF tx.amount.nan THEN NaNText ELSE toFixed2(tx.amount))
    ELSE IF h = 4 THEN tx.payee
    ELSE IF h = 5 THEN tx.notes
    ELSE IF h = 6 THEN tx.category
    ELSE tx.import_id

\* a value copied with its double quotes as they are
DoubleQuotesKept(s) == s

\* .replace(/"/g, '""')
DoubleQuotes(s) ==
    Flatten([i \in 1..Len(s) |->
                IF s[i] = DoubleQuote THEN <<DoubleQuote, DoubleQuote>> ELSE <<s[i]>>])

\* `"${String(value).replace(/"/g, '""')}"`
QuoteField(value) == <<DoubleQuote>> \o DoubleQuotes(value) \o <<DoubleQuote>>

CsvRow(tx) == Join([h \in 1..Len(CsvHeaders) |-> QuoteField(FieldText(tx, h))], <<",">>)

\* the text the rows are joined by in content.js: the string literal "\\n"
LineSeparator == <<Backslash, "n">>

\* the text the rows are joined by in the earlier version: "\n"
LegacyLineSeparator == <<NewLine>>

\* csvContent of downloadCSV
downloadCSV(transactions) ==
    Join(<<Join(CsvHeaders, <<",">>)>>
         \o [i \in 1..Len(transactions) |-> CsvRow(transactions[i])],
         LineSeparator)

legacyDownloadCSV(transactions) ==
    Join(<<Join(CsvHeaders, <<",">>)>>
         \o [i \in 1..Len(transactions) |-> CsvRow(transactions[i])],
         LegacyLineSeparator)

(***************************************************************************)
(* The texts the modelled pages show.                                      *)
(***************************************************************************)
TextMar3 == <<"M", "a", "r", " ", "3">>
TextDashes == <<"-", "-">>
PayeeAb == <<"A", "b">>
PayeeABSpaced == <<" ", "a", " ", "B", " ">>
PayeeCd == <<"C", "d">>
AmountOne == <<"$", "1">>
AmountTwo == <<"-", "$", "2", ".", "5", "0">>
CategoryX == <<"x">>

\* rows of the structural pages: two rows with one import id (they differ in
\* payee spelling and category) and a row with another import id
RowSamples ==
    { <<PayeeAb, AmountOne>>,
      <<PayeeABSpaced, CategoryX, AmountOne>>,
      <<PayeeCd, AmountTwo>> }

HeadingSamples == {TextToday, TextYesterday}

\* number of headings and rows of a document
NodeCount(document) ==
    Len(document) + Len(AllButtons(document))
    - Cardinality({i \in 1..Len(document) : document[i].tag = "DIV"})

\* normal flow: the n-th node of the page occupies the band from 2n to 2n+1
FlowTop(document) == 2 * NodeCount(document)
FlowBottom(document) == 2 * NodeCount(document) + 1

\* the page shows another document: what an earlier click produced is gone
Rendered(document) ==
    /\ doc' = document
    /\ pc' = "page"
    /\ result' = <<>>
    /\ csv' = <<>>
    /\ alerts' = <<>>
    /\ downloads' = 0
    /\ UNCHANGED <<version, envVars, uiVars, syncVars>>

AddButton(document, button) ==
    [document EXCEPT ![Len(document)].buttons = Append(@, button)]

\* the sync button as placeExportButton creates it
SyncButton ==
    [text |-> <<"Sync to Actual Budget">>,
     backgroundColor |-> "", borderColor |-> "", color |-> ""]

\* the account names a map may have entries for; an absent entry reads as
\* undefined, which the code treats like the empty text
NoAccountMap == [cash |-> "", tfsa |-> ""]

\* chrome.storage.sync with nothing saved
NoSettings == [apiUrl |-> "", apiKey |-> "", budgetId |-> "", accountMap |-> NoAccountMap]

\* no message of another sender was delivered, no settings were saved
NoForeign == [delivered |-> 0, posts |-> 0, saves |-> 0]

\* no call of autoScrollToLoadAll is running; the page is one screen high
NotScrolling ==
    [pc |-> "idle", scrollAttempts |-> 0, previousHeight |-> 0, unchangedCount |-> 0,
     scrolls |-> 0, at |-> "top", height |-> 1]

\* the activity page with the buttons placed and nothing pending
Placed ==
    [url |-> "activity", lastUrl |-> "activity", title |-> TRUE,
     containers |-> 1, exportBtns |-> 1, syncBtns |-> 1,
     reads |-> 0, stale |-> 0, timeouts |-> 0, late |-> FALSE]

\* the script has just been injected: nothing shown, nothing in flight
Installed ==
    /\ scroll = NotScrolling
    /\ place = Placed
    /\ today = Today
    /\ engine = "carry"
    /\ alerts = <<>>
    /\ downloads = 0
    /\ settings = NoSettings
    /\ btn = SyncButton
    /\ syncs = <<>>
    /\ timers = <<>>
    /\ foreign = NoForeign

Init ==
    /\ Installed
    /\ doc = <<>>
    /\ version = "current"
    /\ pc = "page"
    /\ result = <<>>
    /\ csv = <<>>

\* the page renders a date heading, with or without the marker attribute
RenderHeading ==
    /\ NodeCount(doc) < MaxNodes
    /\ \E marker \in BOOLEAN, text \in HeadingSamples :
          Rendered(Append(doc, Heading(marker, text, FlowBottom(doc))))

\* the page renders a container with one button row
RenderRow ==
    /\ NodeCount(doc) < MaxNodes
    /\ \E ps \in RowSamples :
          Rendered(Append(doc, Container(<<Button(ps, FlowTop(doc), FALSE)>>)))

\* the page renders one more button row in the last container
RenderButton ==
    /\ NodeCount(doc) < MaxNodes
    /\ Len(doc) > 0 /\ doc[Len(doc)].tag = "DIV"
    /\ \E ps \in RowSamples :
          Rendered(AddButton(doc, Button(ps, FlowTop(doc), FALSE)))

\* the empty result is never taken as one
NothingFoundNever(transactions) == FALSE

\* transactions.length === 0
NothingFound(transactions) == Len(transactions) = 0

AlertNothingToExport ==
    <<"No transactions found to export. Scroll down and try again.">>

LegacyAlertNothingToExport ==
    <<"No transactions found on the page to export. Please scroll to load transactions, or check the extension's console for errors if the page structure has changed.">>

\* csvBtn.onclick of content.js: extract, then alert or download
ClickExport ==
    /\ version = "current"
    /\ pc = "page"
    /\ result' = extractTransactions(doc)
    /\ csv' = IF NothingFound(result') THEN csv ELSE downloadCSV(result')
    /\ alerts' = IF NothingFound(result') THEN Append(alerts, AlertNothingToExport) ELSE alerts
    /\ downloads' = IF NothingFound(result') THEN downloads ELSE downloads + 1
    /\ pc' = "clicked"
    /\ UNCHANGED <<doc, version, envVars, uiVars, syncVars>>

\* btn.onclick of the earlier version
LegacyClickExport ==
    /\ version = "legacy"
    /\ pc = "page"
    /\ result' = legacyExtractTransactions(doc)
    /\ csv' = IF Len(result') = 0 THEN csv ELSE legacyDownloadCSV(result')
    /\ alerts' = IF Len(result') = 0 THEN Append(alerts, LegacyAlertNothingToExport) ELSE alerts
    /\ downloads' = IF Len(result') = 0 THEN downloads ELSE downloads + 1
    /\ pc' = "clicked"
    /\ UNCHANGED <<doc, version, envVars, uiVars, syncVars>>

Next ==
    \/ RenderHeading
    \/ RenderRow
    \/ RenderButton
    \/ ClickExport

Spec == Init /\ [][Next]_vars

(***************************************************************************)
(* Pages with one heading and one row whose amount text is any text over   *)
(* the alphabet, read by either version of the script.                     *)
(***************************************************************************)
AmountAlphabet ==
    {"0", "1", ".", "-", "$", "x",
     EnDash, EmDash, UnicodeMinus, EuroSign, ACircumflex, RightSingleQuote}

\* the texts over an alphabet of length at most n
TextsUpTo(alphabet, n) == UNION {[1..k -> alphabet] : k \in 0..n}

\* a marked or unmarked heading "Today" and under it one row of the fields ps
OneRowPage(marker, ps) ==
    <<Heading(marker, TextToday, 1), Container(<<Button(ps, 2, TRUE)>>)>>

\* a heading of any text and under it one row of the fields ps
DatedRowPage(marker, text, ps) ==
    <<Heading(marker, text, 1), Container(<<Button(ps, 2, TRUE)>>)>>

\* the p texts of the row of a one-row page
RowFields == doc[2].buttons[1].ps

InitAmount ==
    /\ Installed
    /\ version \in {"current", "legacy"}
    /\ \E marker \in BOOLEAN, text \in TextsUpTo(AmountAlphabet, MaxAmountLen) :
          /\ version = "legacy" => marker
          /\ doc = OneRowPage(marker, <<PayeeAb, text>>)
    /\ pc = "page"
    /\ result = <<>>
    /\ csv = <<>>

NextAmount ==
    \/ ClickExport
    \/ LegacyClickExport

SpecAmount == InitAmount /\ [][NextAmount]_vars

(***************************************************************************)
(* Pages with one heading and one row of any number of p elements.         *)
(***************************************************************************)
FieldSamples ==
    {<<>>, <<" ", "A">>, <<"x", " ">>, AmountOne}

InitRow ==
    /\ Installed
    /\ version = "current"
    /\ \E marker \in BOOLEAN, ps \in TextsUpTo(FieldSamples, MaxFields) :
          doc = OneRowPage(marker, ps)
    /\ pc = "page"
    /\ result = <<>>
    /\ csv = <<>>

NextRow == ClickExport

SpecRow == InitRow /\ [][NextRow]_vars

(***************************************************************************)
(* Pages with one heading of any of the date labels and one row, read on   *)
(* any of the days below by either kind of engine.                         *)
(***************************************************************************)
TextFebruary29 == <<"F", "e", "b", "r", "u", "a", "r", "y", " ", "2", "9">>
TextJuly1Of2025 == <<"J", "u", "l", "y", " ", "1", ",", " ", "2", "0", "2", "5">>
TextDecember31Of2023 == <<"D", "e", "c", "e", "m", "b", "e", "r", " ", "3", "1", ",", " ", "2", "0", "2", "3">>
TextFeb30Of2024 == <<"F", "e", "b", " ", "3", "0", ",", " ", "2", "0", "2", "4">>
TextPending == <<"P", "e", "n", "d", "i", "n", "g">>
TextLowerToday == <<"t", "o", "d", "a", "y">>

DateTextSamples ==
    {TextToday, TextYesterday, TextMar3, TextFebruary29, TextJuly1Of2025,
     TextDecember31Of2023, TextFeb30Of2024, TextDashes, TextPending, TextLowerToday}

TodaySamples ==
    {Today,
     [valid |-> TRUE, y |-> 2025, m |-> 1, d |-> 1],
     [valid |-> TRUE, y |-> 2024, m |-> 3, d |-> 1],
     [valid |-> TRUE, y |-> 2024, m |-> 2, d |-> 29]}

InitDate ==
    /\ today \in TodaySamples
    /\ engine \in {"carry", "reject"}
    /\ alerts = <<>>
    /\ downloads = 0
    /\ settings = NoSettings
    /\ btn = SyncButton
    /\ syncs = <<>>
    /\ timers = <<>>
    /\ foreign = NoForeign
    /\ scroll = NotScrolling
    /\ place = Placed
    /\ version = "current"
    /\ \E marker \in BOOLEAN, text \in DateTextSamples :
          doc = DatedRowPage(marker, text, <<PayeeAb, AmountOne>>)
    /\ pc = "page"
    /\ result = <<>>
    /\ csv = <<>>

NextDate == ClickExport

SpecDate == InitDate /\ [][NextDate]_vars

(***************************************************************************)
(* Pages with one dated row of any of the payees and amounts below: the    *)
(* inputs of generateImportId.                                             *)
(***************************************************************************)
PayeeTabbed == <<"C", "\t", "D", " ", " ", "e">>

IdPayeeSamples == {PayeeAb, PayeeABSpaced, PayeeCd, PayeeTabbed}

IdAmountSamples ==
    {AmountOne, AmountTwo, <<".", "1", "2", "7">>, <<"-", "1", ".", "2", "3", "4">>, <<"$", "0", ".", "1", "0">>, <<"1", "2">>, <<"-", ".", "0", "0", "4">>}

InitId ==
    /\ Installed
    /\ version = "current"
    /\ \E marker \in BOOLEAN, text \in {TextToday, TextMar3},
          payee \in IdPayeeSamples, amount \in IdAmountSamples :
          doc = DatedRowPage(marker, text, <<payee, amount>>)
    /\ pc = "page"
    /\ result = <<>>
    /\ csv = <<>>

NextId == ClickExport

SpecId == InitId /\ [][NextId]_vars

(***************************************************************************)
(* Pages without the marker whose boxes lie anywhere (the layout is the    *)
(* style sheet's): headings and rows at the positions below.               *)
(***************************************************************************)
Positions == {0, 500, 1500, 2500}

PositionedHeadingSamples == {TextToday, TextYesterday, TextDashes}

RenderHeadingAt ==
    /\ NodeCount(doc) < MaxPositioned
    /\ \E text \in PositionedHeadingSamples, bottom \in Positions :
          Rendered(Append(doc, Heading(FALSE, text, bottom)))

RenderRowAt ==
    /\ NodeCount(doc) < MaxPositioned
    /\ \E top \in Positions :
          Rendered(Append(doc, Container(<<Button(<<PayeeAb, AmountOne>>, top, FALSE)>>)))

NextPositioned ==
    \/ RenderHeadingAt
    \/ RenderRowAt
    \/ ClickExport

SpecPositioned == Init /\ [][NextPositioned]_vars

(***************************************************************************)
(* The exporter on any sequence of records.                                *)
(***************************************************************************)
PayeeSamples ==
    {PayeeAb, <<DoubleQuote>>, <<"a", DoubleQuote, DoubleQuote, ",">>, <<"a", NewLine, "b">>}

AmountSamples ==
    {parseFloat(<<"1">>), parseFloat(<<"-", "2", ".", "5">>), parseFloat(<<".", "1", "2", "7">>)}

NotesSamples == {<<>>, <<"n", " ", "|", " ", DoubleQuote>>}

\* the records of a version of the script: the earlier one leaves notes empty
RecordSamples(v) ==
    {Transaction(parseDate(TextToday), amount, payee, notes, <<>>,
                 generateImportId(parseDate(TextToday), amount, payee)) :
        amount \in AmountSamples, payee \in PayeeSamples,
        notes \in IF v = "legacy" THEN {<<>>} ELSE NotesSamples}

InitCsv ==
    /\ Installed
    /\ doc = <<>>
    /\ version \in {"current", "legacy"}
    /\ pc = "records"
    /\ result \in TextsUpTo(RecordSamples(version), MaxRecords)
    /\ csv = <<>>

\* downloadCSV(transactions, accountName) of content.js
DownloadCSV ==
    /\ version = "current"
    /\ pc = "records"
    /\ csv' = downloadCSV(result)
    /\ downloads' = downloads + 1
    /\ pc' = "exported"
    /\ UNCHANGED <<doc, version, result, alerts, envVars, uiVars, syncVars>>

\* downloadCSV(transactions) of the earlier version
LegacyDownloadCSV ==
    /\ version = "legacy"
    /\ pc = "records"
    /\ csv' = legacyDownloadCSV(result)
    /\ downloads' = downloads + 1
    /\ pc' = "exported"
    /\ UNCHANGED <<doc, version, result, alerts, envVars, uiVars, syncVars>>

NextCsv ==
    \/ DownloadCSV
    \/ LegacyDownloadCSV

SpecCsv == InitCsv /\ [][NextCsv]_vars

(***************************************************************************)
(* The sync path.  A sync attempt is created by a click on the sync button *)
(* that found transactions; it carries what its closures hold and what the *)
(* relay did for it.  Its stage is "reading" (chrome.storage.sync.get is   *)
(* pending), "aborted" (syncToActualBudget returned false), "sent" (the    *)
(* message is on its way to the relay), "ignored" (the relay's listener    *)
(* returned without a request), "fetching" (the POST is in flight),        *)
(* "answered" (sendResponse was called), "shown" (the callback changed the *)
(* button and set the timer) or "done" (the timer has fired).              *)
(***************************************************************************)
MaxClicks == 2
MaxForeign == 1
MaxSaves == 1

\* inferAccountName() on the activity page of a cash account: account_ids
\* contains "cash"
inferAccountName == "cash"

SettingsSamples ==
    { [apiUrl |-> "https://actual.example", apiKey |-> "k", budgetId |-> "b1",
       accountMap |-> [cash |-> "acc-1", tfsa |-> ""]],
      [apiUrl |-> "https://actual.example", apiKey |-> "", budgetId |-> "b1",
       accountMap |-> [cash |-> "", tfsa |-> "acc-2"]],
      [apiUrl |-> "", apiKey |-> "k", budgetId |-> "b1",
       accountMap |-> [cash |-> "acc-1", tfsa |-> ""]],
      [apiUrl |-> "https://actual.example", apiKey |-> "k", budgetId |-> "",
       accountMap |-> [cash |-> "acc-1", tfsa |-> ""]] }

\* hasActualSetup of placeExportButton: the sync button is created only then
hasActualSetup(s) == s.apiUrl # "" /\ s.budgetId # ""

AlertNothingToSync ==
    <<"No transactions found to sync. Scroll down and try again.">>

AlertMissingSettings ==
    <<"Actual Budget API URL or Budget ID is missing in settings.">>

AlertNoAccount(accountName) ==
    <<"No Actual Budget Account ID mapped for Wealthsimple account: '", accountName,
      "'. Please update your extension settings.">>

AlertSyncFailed(error) == <<"Failed to sync to Actual Budget: ">> \o error

TextSyncing == <<"Syncing...">>
TextSyncFailed == <<"Sync Failed">>
TextSynced(n) == <<"Synced ">> \o NatToText(n) \o <<"!">>

NoRequest == [action |-> "", url |-> <<>>, apiKey |-> "", transactions |-> <<>>]
NoResponse == [success |-> FALSE, data |-> <<>>, error |-> <<>>]
NoOutcome == [rejected |-> FALSE, status |-> 0, json |-> FALSE, body |-> <<>>]

\* what the callback of chrome.storage.sync.get closes over
NewSync(transactions, accountName) ==
    [stage |-> "reading", transactions |-> transactions, accountName |-> accountName,
     originalText |-> <<>>, request |-> NoRequest, sent |-> 0,
     posts |-> 0, answers |-> 0, outcome |-> NoOutcome, response |-> NoResponse]

\* the test of a missing endpoint that looks at the URL alone
MissingEndpointOnly(s) == s.apiUrl = ""

\* !apiUrl || !budgetId
MissingEndpointOrBudget(s) == s.apiUrl = "" \/ s.budgetId = ""

\* accountMap && accountMap[accountName] ? accountMap[accountName] : null,
\* null written as the empty text
actualAccountId(s, accountName) == s.accountMap[accountName]

\* String(n).padStart(2, '0')
PadStart2(n) == IF n < 10 THEN <<"0">> \o NatToText(n) ELSE NatToText(n)

\* `${yyyy}-${mm}-${dd}` of new Date(tx.date)
IsoDate(t) ==
    IF t.valid THEN NatToText(t.y) \o <<"-">> \o PadStart2(t.m) \o <<"-">> \o PadStart2(t.d)
    ELSE <<"N", "a", "N", "-", "N", "a", "N", "-", "N", "a", "N">>

\* Boolean(text)
Boolean(text) == Len(text) > 0

\* category and notes joined whatever they hold
SyncNotesUnfiltered(tx) == Join(<<tx.category, tx.notes>>, <<" ", "|", " ">>)

\* [tx.category, tx.notes].filter(Boolean).join(" | ")
SyncNotes(tx) == Join(SelectSeq(<<tx.category, tx.notes>>, Boolean), <<" ", "|", " ">>)

\* the object transactions.map builds for one record
FormatForActual(tx) ==
    [date |-> IsoDate(DateFromText(tx.date)),
     amount |-> MathRoundTimes100(tx.amount),
     payee_name |-> tx.payee,
     notes |-> SyncNotes(tx),
     imported_id |-> tx.import_id]

formattedTransactions(transactions) ==
    [k \in 1..Len(transactions) |-> FormatForActual(transactions[k])]

\* the message of chrome.runtime.sendMessage
SyncRequest(s, accountName, transactions) ==
    [action |-> "syncToActual",
     url |-> <<s.apiUrl, "/budgets/", s.budgetId, "/accounts/",
               actualAccountId(s, accountName), "/transactions/import">>,
     apiKey |-> s.apiKey,
     transactions |-> formattedTransactions(transactions)]

\* what the server, or the network, does with a POST
OutcomeSamples ==
    { [rejected |-> TRUE, status |-> 0, json |-> FALSE, body |-> <<>>],
      [rejected |-> FALSE, status |-> 500, json |-> FALSE, body |-> <<"n", "o">>],
      [rejected |-> FALSE, status |-> 404, json |-> TRUE, body |-> <<"{", "}">>],
      [rejected |-> FALSE, status |-> 200, json |-> TRUE, body |-> <<"{", "}">>],
      [rejected |-> FALSE, status |-> 200, json |-> FALSE, body |-> <<"o", "k">>] }

\* response.ok
Ok(outcome) == outcome.status >= 200 /\ outcome.status <= 299

\* error.message of a rejected fetch and of response.json() on other text
FetchErrorMessage == <<"Failed to fetch">>
JsonErrorMessage == <<"Unexpected token in JSON">>

\* a relay that takes every response with a 2xx status as a success
RelayAnswerByStatus(outcome) ==
    IF ~outcome.rejected /\ Ok(outcome)
    THEN [success |-> TRUE, data |-> outcome.body, error |-> <<>>]
    ELSE [success |-> FALSE, data |-> <<>>, error |-> FetchErrorMessage]

\* what the promise chain of the listener hands to sendResponse
RelayAnswer(outcome) ==
    IF outcome.rejected
    THEN [success |-> FALSE, data |-> <<>>, error |-> FetchErrorMessage]
    ELSE IF ~Ok(outcome)
    THEN [success |-> FALSE, data |-> <<>>,
          error |-> <<"API returned ">> \o NatToText(outcome.status)
                        \o <<": ">> \o outcome.body]
    ELSE IF outcome.json
    THEN [success |-> TRUE, data |-> outcome.body, error |-> <<>>]
    ELSE [success |-> FALSE, data |-> <<>>, error |-> JsonErrorMessage]

\* request.action === 'syncToActual'
Accepts(request) == request.action = "syncToActual"

\* a message of another sender
ForeignRequest == [NoRequest EXCEPT !.action = "ping"]

\* the clicks on the sync button so far
SyncClicks ==
    Len(syncs) + Cardinality({a \in 1..Len(alerts) : alerts[a] = AlertNothingToSync})

\* syncBtn.onclick: extract, then alert or read the settings
ClickSync ==
    /\ SyncClicks < MaxClicks
    /\ result' = extractTransactions(doc)
    /\ IF NothingFound(result')
       THEN /\ alerts' = Append(alerts, AlertNothingToSync)
            /\ syncs' = syncs
       ELSE /\ alerts' = alerts
            /\ syncs' = Append(syncs, NewSync(result', inferAccountName))
    /\ UNCHANGED <<doc, version, pc, csv, downloads, envVars, uiVars, settings, btn, timers, foreign>>

\* return false after an alert
Abort(i, alert) ==
    /\ alerts' = Append(alerts, alert)
    /\ syncs' = [syncs EXCEPT ![i].stage = "aborted"]
    /\ btn' = btn

\* the try block up to return true: the label is saved and replaced, the
\* message is sent
Send(i) ==
    /\ syncs' = [syncs EXCEPT ![i].stage = "sent",
                              ![i].originalText = btn.text,
                              ![i].sent = @ + 1,
                              ![i].request = SyncRequest(settings, syncs[i].accountName,
                                                         syncs[i].transactions)]
    /\ btn' = [btn EXCEPT !.text = TextSyncing]
    /\ alerts' = alerts

\* the callback of chrome.storage.sync.get: syncToActualBudget(transactions,
\* accountName, latestSettings, syncBtn); the callbacks run in the order of
\* the reads
SettingsRead ==
    /\ \E i \in 1..Len(syncs) :
          /\ syncs[i].stage = "reading"
          /\ \A j \in 1..(i - 1) : syncs[j].stage # "reading"
          /\ IF MissingEndpointOrBudget(settings)
             THEN Abort(i, AlertMissingSettings)
             ELSE IF actualAccountId(settings, syncs[i].accountName) = ""
             THEN Abort(i, AlertNoAccount(syncs[i].accountName))
             ELSE Send(i)
    /\ UNCHANGED <<doc, version, pc, result, csv, downloads, envVars, uiVars, settings, timers, foreign>>

\* the listener of background.js on a message of the content script
RelayReceive ==
    /\ \E i \in 1..Len(syncs) :
          /\ syncs[i].stage = "sent"
          /\ syncs' = IF Accepts(syncs[i].request)
                      THEN [syncs EXCEPT ![i].stage = "fetching", ![i].posts = @ + 1]
                      ELSE [syncs EXCEPT ![i].stage = "ignored"]
    /\ UNCHANGED <<doc, version, pc, result, csv, alerts, downloads, envVars, uiVars,
                   settings, btn, timers, foreign>>

\* the fetch settles and the promise chain runs to sendResponse
FetchSettles ==
    /\ \E i \in 1..Len(syncs), outcome \in OutcomeSamples :
          /\ syncs[i].stage = "fetching"
          /\ syncs' = [syncs EXCEPT ![i].stage = "answered",
                                    ![i].outcome = outcome,
                                    ![i].response = RelayAnswer(outcome),
                                    ![i].answers = @ + 1]
    /\ UNCHANGED <<doc, version, pc, result, csv, alerts, downloads, envVars, uiVars,
                   settings, btn, timers, foreign>>

\* the button after a response
ShownButton(response, n) ==
    IF response.success
    THEN [text |-> TextSynced(n), backgroundColor |-> "#e6f4ea",
          borderColor |-> "#c3e6cb", color |-> "#155724"]
    ELSE [text |-> TextSyncFailed, backgroundColor |-> "#f8d7da",
          borderColor |-> "#f5c6cb", color |-> "#721c24"]

\* the callback of chrome.runtime.sendMessage
ResponseCallback ==
    /\ \E i \in 1..Len(syncs) :
          /\ syncs[i].stage = "answered"
          /\ syncs' = [syncs EXCEPT ![i].stage = "shown"]
          /\ btn' = ShownButton(syncs[i].response, Len(syncs[i].request.transactions))
          /\ alerts' = IF syncs[i].response.success THEN alerts
                       ELSE Append(alerts, AlertSyncFailed(syncs[i].response.error))
          /\ timers' = Append(timers, i)
    /\ UNCHANGED <<doc, version, pc, result, csv, downloads, envVars, uiVars, settings, foreign>>

\* the callback of setTimeout(..., 3000): timers of one delay fire in the
\* order they were set
TimerFires ==
    /\ Len(timers) > 0
    /\ btn' = [text |-> syncs[Head(timers)].originalText,
               backgroundColor |-> "", borderColor |-> "", color |-> ""]
    /\ syncs' = [syncs EXCEPT ![Head(timers)].stage = "done"]
    /\ timers' = Tail(timers)
    /\ UNCHANGED <<doc, version, pc, result, csv, alerts, downloads, envVars, uiVars,
                   settings, foreign>>

\* the listener of background.js on a message with another action
ForeignMessage ==
    /\ foreign.delivered < MaxForeign
    /\ foreign' = IF Accepts(ForeignRequest)
                  THEN [foreign EXCEPT !.delivered = @ + 1, !.posts = @ + 1]
                  ELSE [foreign EXCEPT !.delivered = @ + 1]
    /\ UNCHANGED <<doc, version, pc, result, csv, alerts, downloads, envVars, uiVars,
                   settings, btn, syncs, timers>>

\* saveBtn of popup.js: the user saves other settings
SaveSettings ==
    /\ foreign.saves < MaxSaves
    /\ \E s \in SettingsSamples \ {settings} : settings' = s
    /\ foreign' = [foreign EXCEPT !.saves = @ + 1]
    /\ UNCHANGED <<doc, version, pc, result, csv, alerts, downloads, envVars, uiVars,
                   btn, syncs, timers>>

\* rows of the synced pages: plain, with a category, with a category and a
\* note, with a note and an empty category
NoteN == <<"n">>
SyncPageSamples ==
    { <<Heading(TRUE, TextToday, 1)>>,
      OneRowPage(TRUE, <<PayeeAb, AmountOne>>),
      <<Heading(TRUE, TextToday, 1),
        Container(<<Button(<<PayeeCd, CategoryX, AmountTwo>>, 2, FALSE),
                    Button(<<PayeeAb, CategoryX, NoteN, AmountOne>>, 3, FALSE),
                    Button(<<PayeeABSpaced, <<>>, NoteN, AmountTwo>>, 4, FALSE)>>)>> }

\* infinite scroll: the page that showed no row shows rows
LoadMore ==
    /\ Len(doc) = 1
    /\ \E document \in SyncPageSamples : Len(document) > 1 /\ doc' = document
    /\ UNCHANGED <<version, pc, result, csv, alerts, downloads, envVars, uiVars, syncVars>>

\* the buttons have just been placed, the sync button among them
InitSync ==
    /\ today = Today
    /\ engine = "carry"
    /\ alerts = <<>>
    /\ downloads = 0
    /\ settings \in {s \in SettingsSamples : hasActualSetup(s)}
    /\ btn = SyncButton
    /\ syncs = <<>>
    /\ timers = <<>>
    /\ foreign = NoForeign
    /\ scroll = NotScrolling
    /\ place = Placed
    /\ doc \in SyncPageSamples
    /\ version = "current"
    /\ pc = "page"
    /\ result = <<>>
    /\ csv = <<>>

NextSync ==
    \/ ClickSync
    \/ ClickExport
    \/ SettingsRead
    \/ RelayReceive
    \/ FetchSettles
    \/ ResponseCallback
    \/ TimerFires
    \/ ForeignMessage
    \/ SaveSettings
    \/ LoadMore

SpecSync == InitSync /\ [][NextSync]_vars

(***************************************************************************)
(* autoScrollToLoadAll.  The call runs from one await to the next: it is   *)
(* "waiting" on the 800 ms timer after a scroll to the bottom, "settling"  *)
(* on the 300 ms timer after the scroll back to the top, then "returned".  *)
(* While it waits the page may load rows or drop them: its height moves    *)
(* by at most one screen per wait.                                         *)
(***************************************************************************)
maxScrollAttempts == 200
UnchangedLimit == 3

HeightSteps == {-1, 0, 1}

\* a loop without the cap
LoopContinuesAlways(l) == TRUE

\* scrollAttempts < maxScrollAttempts
LoopContinues(l) == l.scrollAttempts < maxScrollAttempts

\* after the loop: window.scrollTo(0, 0) and the 300 ms wait
ScrollToTop(l) == [l EXCEPT !.pc = "settling", !.at = "top"]

\* the top of the loop: scroll to the bottom and wait, or leave the loop
LoopTop(l) ==
    IF LoopContinues(l)
    THEN [l EXCEPT !.pc = "waiting", !.at = "bottom", !.scrolls = @ + 1]
    ELSE ScrollToTop(l)

\* the loop body after the wait when the height is the previous one
SameHeight(l) ==
    IF l.unchangedCount + 1 >= UnchangedLimit
    THEN ScrollToTop([l EXCEPT !.unchangedCount = @ + 1])
    ELSE LoopTop([l EXCEPT !.unchangedCount = @ + 1,
                           !.scrollAttempts = @ + 1])

\* the loop body after the wait when the height is another one
OtherHeight(l, currentHeight) ==
    LoopTop([l EXCEPT !.unchangedCount = 0,
                      !.previousHeight = currentHeight,
                      !.scrollAttempts = @ + 1])

\* the loop body after the wait, on the height it reads
AfterWait(l, currentHeight) ==
    IF currentHeight = l.previousHeight
    THEN SameHeight(l)
    ELSE OtherHeight(l, currentHeight)

\* the call, up to its first await
CallAutoScroll ==
    /\ scroll.pc = "idle"
    /\ scroll' = LoopTop([scroll EXCEPT !.scrollAttempts = 0, !.previousHeight = 0,
                                        !.unchangedCount = 0])
    /\ UNCHANGED <<doc, version, pc, result, csv, alerts, downloads, envVars, syncVars, place>>

\* the 800 ms timer fires: the height is read, the loop goes on or ends
WakeAfterScroll ==
    /\ scroll.pc = "waiting"
    /\ \E step \in HeightSteps :
          /\ scroll.height + step >= 1
          /\ scroll' = AfterWait([scroll EXCEPT !.height = @ + step], scroll.height + step)
    /\ UNCHANGED <<doc, version, pc, result, csv, alerts, downloads, envVars, syncVars, place>>

\* the 300 ms timer fires: the call returns
WakeAfterTop ==
    /\ scroll.pc = "settling"
    /\ scroll' = [scroll EXCEPT !.pc = "returned"]
    /\ UNCHANGED <<doc, version, pc, result, csv, alerts, downloads, envVars, syncVars, place>>

InitScroll ==
    /\ Installed
    /\ doc = <<>>
    /\ version = "current"
    /\ pc = "page"
    /\ result = <<>>
    /\ csv = <<>>

NextScroll ==
    \/ CallAutoScroll
    \/ WakeAfterScroll
    \/ WakeAfterTop

SpecScroll == InitScroll /\ [][NextScroll]_vars

\* timers fire and the event loop runs what is due
SpecScrollFair == SpecScroll /\ WF_vars(NextScroll)

(***************************************************************************)
(* placeExportButton and initializeButtonPlacement.  place holds what the  *)
(* document contains (the Activity heading, the elements with the ids      *)
(* ws-buttons-container, ws-export-btn and ws-sync-btn), the address, the  *)
(* lastUrl of the second observer, and what is in flight: the timers of    *)
(* setTimeout(placeExportButton, 1000) and the chrome.storage.sync.get     *)
(* reads, apart those whose heading is still in the document (reads) and   *)
(* those whose heading was removed since (stale).  late records that a     *)
(* settings callback returned at its second look for the container.  A     *)
(* MutationObserver callback runs right after the task that changed the    *)
(* DOM, so it is part of that step.                                        *)
(***************************************************************************)
MaxPending == 2

\* timers and settings reads in flight
Pending(p) == p.reads + p.stale + p.timeouts

\* document.getElementById("ws-buttons-container") at the head of
\* placeExportButton
AlreadyPlaced(p) == p.containers > 0

\* a callback that does not look again
NeverPlacedMeanwhile(p) == FALSE

\* document.getElementById("ws-buttons-container") in the settings callback
PlacedMeanwhile(p) == p.containers > 0

\* findActivityTitle() finds a heading and the address is the activity page
OnActivityPage(p) == p.title /\ p.url = "activity"

\* placeExportButton(): the document after the call returned
placeExportButton(p) ==
    IF AlreadyPlaced(p) THEN p
    ELSE IF OnActivityPage(p) THEN [p EXCEPT !.reads = @ + 1]
    ELSE p

\* the first MutationObserver
ObserverPlaces(p) ==
    IF p.url = "activity" /\ p.containers = 0 THEN placeExportButton(p) ELSE p

\* the second MutationObserver
ObserverWatchesUrl(p) ==
    IF p.url # p.lastUrl
    THEN [p EXCEPT !.lastUrl = p.url,
                   !.timeouts = IF p.url = "activity" THEN @ + 1 ELSE @]
    ELSE p

\* both observers, in the order they were registered
Observers(p) == ObserverWatchesUrl(ObserverPlaces(p))

\* oldBtn.remove(), oldSync.remove(): the first element of each id leaves
RemoveOldButtons(p) ==
    [p EXCEPT !.exportBtns = IF @ > 0 THEN @ - 1 ELSE 0,
              !.syncBtns = IF @ > 0 THEN @ - 1 ELSE 0]

\* the container goes before the heading, the heading goes into it, then
\* the buttons
InsertButtons(p, s) ==
    [p EXCEPT !.containers = @ + 1,
              !.exportBtns = @ + 1,
              !.syncBtns = IF hasActualSetup(s) THEN @ + 1 ELSE @]

\* the settings callback on a heading that is still in the document
PlaceOnHeading(p, s) ==
    IF PlacedMeanwhile(p)
    THEN [p EXCEPT !.late = TRUE]
    ELSE Observers(InsertButtons(RemoveOldButtons(p), s))

\* the settings callback on a heading that left the document: insertBefore
\* throws on a null parent or fills a subtree outside the document
PlaceOnRemovedHeading(p) ==
    IF PlacedMeanwhile(p)
    THEN [p EXCEPT !.late = TRUE]
    ELSE RemoveOldButtons(p)

\* a timer of setTimeout(placeExportButton, 1000) fires
PlaceTimerFires ==
    /\ place.timeouts > 0
    /\ place' = placeExportButton([place EXCEPT !.timeouts = @ - 1])
    /\ UNCHANGED <<doc, version, pc, result, csv, alerts, downloads, envVars, syncVars, scroll>>

\* chrome.storage.sync.get calls back, its heading still in the document
SettingsCallback ==
    /\ place.reads > 0
    /\ place' = PlaceOnHeading([place EXCEPT !.reads = @ - 1], settings)
    /\ UNCHANGED <<doc, version, pc, result, csv, alerts, downloads, envVars, syncVars, scroll>>

\* chrome.storage.sync.get calls back, its heading gone
StaleSettingsCallback ==
    /\ place.stale > 0
    /\ place' = PlaceOnRemovedHeading([place EXCEPT !.stale = @ - 1])
    /\ UNCHANGED <<doc, version, pc, result, csv, alerts, downloads, envVars, syncVars, scroll>>

\* the application changes the address (history.pushState)
Navigate ==
    /\ Pending(place) < MaxPending
    /\ place' = [place EXCEPT !.url = IF @ = "activity" THEN "other" ELSE "activity"]
    /\ UNCHANGED <<doc, version, pc, result, csv, alerts, downloads, envVars, syncVars, scroll>>

\* the application changes the page somewhere else
PageChanges ==
    /\ Pending(place) < MaxPending
    /\ place' = Observers(place)
    /\ UNCHANGED <<doc, version, pc, result, csv, alerts, downloads, envVars, syncVars, scroll>>

\* the application renders an Activity heading
RenderTitle ==
    /\ Pending(place) < MaxPending
    /\ ~place.title
    /\ place' = Observers([place EXCEPT !.title = TRUE])
    /\ UNCHANGED <<doc, version, pc, result, csv, alerts, downloads, envVars, syncVars, scroll>>

\* the application removes the heading alone
RemoveTitle ==
    /\ Pending(place) < MaxPending
    /\ place.title
    /\ place' = Observers([place EXCEPT !.title = FALSE, !.stale = @ + place.reads,
                                        !.reads = 0])
    /\ UNCHANGED <<doc, version, pc, result, csv, alerts, downloads, envVars, syncVars, scroll>>

\* the application removes the view: the heading, and the container with
\* its buttons when there is one
RemoveView ==
    /\ Pending(place) < MaxPending
    /\ place.title \/ place.containers > 0
    /\ place' = Observers([place EXCEPT !.title = FALSE, !.stale = @ + place.reads,
                                        !.reads = 0, !.containers = 0,
                                        !.exportBtns = 0, !.syncBtns = 0])
    /\ UNCHANGED <<doc, version, pc, result, csv, alerts, downloads, envVars, syncVars, scroll>>

\* initializeButtonPlacement() has run: one timer, two observers, no button
Injected ==
    { [url |-> u, lastUrl |-> u, title |-> t,
       containers |-> 0, exportBtns |-> 0, syncBtns |-> 0,
       reads |-> 0, stale |-> 0, timeouts |-> 1, late |-> FALSE] :
      u \in {"activity", "other"}, t \in BOOLEAN }

InitPlace ==
    /\ today = Today
    /\ engine = "carry"
    /\ alerts = <<>>
    /\ downloads = 0
    /\ settings \in SettingsSamples \cup {NoSettings}
    /\ btn = SyncButton
    /\ syncs = <<>>
    /\ timers = <<>>
    /\ foreign = NoForeign
    /\ scroll = NotScrolling
    /\ place \in Injected
    /\ doc = <<>>
    /\ version = "current"
    /\ pc = "page"
    /\ result = <<>>
    /\ csv = <<>>

NextPlace ==
    \/ PlaceTimerFires
    \/ SettingsCallback
    \/ StaleSettingsCallback
    \/ Navigate
    \/ PageChanges
    \/ RenderTitle
    \/ RemoveTitle
    \/ RemoveView
    \/ SaveSettings

SpecPlace == InitPlace /\ [][NextPlace]_vars

(***************************************************************************)
(* Properties of the structural pages (specification Spec).                *)
(***************************************************************************)
Clicked == pc = "clicked"

\* the record a visit yields when nothing was seen before it: one record
\* for an accepted row, none for a skipped one
Yield1(date, button) == ProcessButtonPhase1(NothingSeen, date, button).transactions
Yield2(date, button) == ProcessButtonPhase2(NothingSeen, date, button).transactions

\* the places strategy 1 reads a row at: header index, sibling index and
\* index of the button in the sibling, for the siblings up to the walk's end
Places1(document) ==
    {<<h, i, k>> \in (1..Len(document)) \X (1..Len(document)) \X (1..MaxNodes + 1) :
        /\ document[h].tag = "H2" /\ document[h].marker
        /\ h < i /\ i <= WalkEnd(document, h)
        /\ k <= Len(document[i].buttons)}

\* header order, then sibling order, then row order
Before(p, q) ==
    \/ p[1] < q[1]
    \/ p[1] = q[1] /\ p[2] < q[2]
    \/ p[1] = q[1] /\ p[2] = q[2] /\ p[3] < q[3]

YieldAt(document, p) == Yield1(Trim(document[p[1]].text), document[p[2]].buttons[p[3]])

\* what each place yields
Yields1(document) == [p \in Places1(document) |-> YieldAt(document, p)]

\* the places whose row is accepted and yields the import id
PlacesOf(yields, importId) ==
    {p \in DOMAIN yields : Len(yields[p]) = 1 /\ yields[p][1].import_id = importId}

\* the first of a non-empty set of places
FirstPlace(places) == CHOOSE p \in places : \A q \in places : q = p \/ Before(p, q)

Phase1Produced == Len(Strategy1(doc).transactions) > 0

\* the accepted rows of the strategy that produced the result, in the order
\* of its traversal
AcceptedRows(document) ==
    LET v1 == Phase1Visits(document)
        v2 == Phase2Visits(document)
        a1 == Flatten([n \in 1..Len(v1) |-> Yield1(v1[n].date, v1[n].button)])
        a2 == Flatten([n \in 1..Len(v2) |-> Yield2(v2[n].date, v2[n].button)])
    IN  IF Len(a1) > 0 THEN a1 ELSE a2

FirstWith(rows, importId) ==
    rows[CHOOSE n \in 1..Len(rows) :
            /\ rows[n].import_id = importId
            /\ \A m \in 1..(n - 1) : rows[m].import_id # importId]

\* C1: in the sequence one call returns no two records share an import_id;
\* of the accepted rows with one import_id exactly the first in traversal
\* order is kept, as it is (its own payee, notes and category)
C1_Deduplicated ==
    Clicked =>
        LET rows == AcceptedRows(doc)
        IN  /\ \A i, j \in 1..Len(result) :
                  result[i].import_id = result[j].import_id => i = j
            /\ \A n \in 1..Len(rows) :
                  \E i \in 1..Len(result) : result[i].import_id = rows[n].import_id
            /\ \A i \in 1..Len(result) :
                  /\ \E n \in 1..Len(rows) : rows[n].import_id = result[i].import_id
                  /\ result[i] = FirstWith(rows, result[i].import_id)

\* two accepted rows share an import id and differ in category and payee
\* text, and the call has returned
C1_Witness ==
    /\ Clicked
    /\ LET rows == AcceptedRows(doc)
       IN  /\ Len(result) < Len(rows)
           /\ \E m, n \in 1..Len(rows) :
                 /\ m < n
                 /\ rows[m].import_id = rows[n].import_id
                 /\ rows[m].category # rows[n].category
                 /\ rows[m].payee # rows[n].payee

\* what strategy 2 returns when it runs alone on the document
Phase2Alone(document) == RunPhase2(NothingSeen, Phase2Visits(document)).transactions

\* the records of b that are not in a
Missing(a, b) == {b[n] : n \in 1..Len(b)} \ {a[m] : m \in 1..Len(a)}

\* C2: when strategy 1 produces a record the call returns exactly the
\* sequence of strategy 1, and no record that only strategy 2 produces
C2_FallbackOnlyWhenEmpty ==
    Clicked =>
        LET first == Strategy1(doc).transactions
        IN  Len(first) > 0 =>
                /\ result = first
                /\ \A r \in Missing(first, Phase2Alone(doc)) :
                      \A i \in 1..Len(result) : result[i] # r

\* strategy 1 produced a record and strategy 2 alone would produce a record
\* strategy 1 does not
C2_Witness ==
    /\ Clicked
    /\ LET first == Strategy1(doc).transactions
       IN  Len(first) > 0 /\ Missing(first, Phase2Alone(doc)) # {}

\* index of the first marked header after h, or one past the end
NextMarked(document, h) ==
    CHOOSE e \in (h + 1)..(Len(document) + 1) :
        /\ \A i \in (h + 1)..(e - 1) : ~(document[i].tag = "H2" /\ document[i].marker)
        /\ e = Len(document) + 1 \/ (document[e].tag = "H2" /\ document[e].marker)

\* the import ids and dates of a sequence of records
Keys(records) ==
    {<<records[r].import_id, records[r].date>> : r \in 1..Len(records)}

\* C8 as stated: for each marked header every acceptable button row of a
\* following sibling before the next marked header is in the result, dated
\* with that header; an unmarked heading in between does not end the walk
C8_WalkToNextMarker ==
    Clicked /\ Phase1Produced =>
        \A h \in 1..Len(doc) :
            doc[h].tag = "H2" /\ doc[h].marker =>
                \A i \in (h + 1)..(NextMarked(doc, h) - 1) :
                    \A k \in 1..Len(doc[i].buttons) :
                        LET y == Yield1(Trim(doc[h].text), doc[i].buttons[k])
                        IN  Len(y) = 1 =>
                                /\ y[1].date = parseDate(Trim(doc[h].text))
                                /\ <<y[1].import_id, y[1].date>> \in Keys(result)

\* C9: the records of strategy 1 are in traversal order: of two records the
\* earlier one's first accepted row comes first by header, then sibling,
\* then row
C9_TraversalOrder ==
    Clicked /\ Phase1Produced =>
        LET yields == Yields1(doc)
            places == [i \in 1..Len(result) |-> PlacesOf(yields, result[i].import_id)]
        IN  \A i, j \in 1..Len(result) :
                /\ places[i] # {}
                /\ i < j /\ places[j] # {} =>
                      Before(FirstPlace(places[i]), FirstPlace(places[j]))

\* two records of one header in row order, with a repeat of the first row
\* between their rows
C9_Witness ==
    /\ Clicked /\ Phase1Produced
    /\ Len(result) = 2
    /\ result[1].date = result[2].date
    /\ LET rows == AcceptedRows(doc)
       IN  /\ Len(rows) = 3
           /\ rows[2].import_id = result[1].import_id
           /\ rows[3].import_id = result[2].import_id

(***************************************************************************)
(* Properties of the one-row pages (specifications SpecAmount, SpecRow).   *)
(***************************************************************************)
\* the trimmed amount text of the row and what the installed version makes
\* of it
RowAmountText == Trim(RowFields[Len(RowFields)])

RowCleaned ==
    IF version = "legacy" THEN LegacyCleanAmount(RowAmountText)
    ELSE CleanAmount(RowAmountText)

\* C3 as stated: in every version of extractTransactions a row whose amount
\* text gives no valid number after cleaning (text without a digit, for one)
\* is skipped: the page's only row leaves the result empty
C3_UnparseableSkipped ==
    Clicked =>
        /\ (\A i \in 1..Len(RowAmountText) : ~IsDigit(RowAmountText[i])) => result = <<>>
        /\ isNaN(parseFloat(RowCleaned)) => result = <<>>

\* the minus glyphs C4 names
ClaimedMinusGlyphs == {"-", EnDash, EmDash, UnicodeMinus}

\* C4 as stated: in content.js an amount text of one of the four minus
\* glyphs and a numeral gives a negative amount, and with any other
\* character in front of the numeral the amount is not negative
C4_MinusGlyphs ==
    Clicked /\ version = "current" /\ Len(RowAmountText) = 2 /\ RowAmountText[2] = "1" =>
        /\ RowAmountText[1] \in ClaimedMinusGlyphs =>
              Len(result) = 1 /\ IsNegative(result[1].amount)
        /\ RowAmountText[1] \notin ClaimedMinusGlyphs =>
              \A r \in 1..Len(result) : ~IsNegative(result[r].amount)

\* C7: a row of k < 2 text fields gives no record; an accepted row gives one
\* record whose payee is field 1, whose amount is parsed from field k, whose
\* category is field 2 when k >= 3 and whose notes are fields 3..k-1 joined
\* by " | " when k >= 4, both empty otherwise
C7_FieldMapping ==
    Clicked =>
        LET k == Len(RowFields)
            field == [i \in 1..k |-> Trim(RowFields[i])]
        IN  /\ k < 2 => result = <<>>
            /\ Len(result) <= 1
            /\ Len(result) = 1 =>
                  /\ result[1].payee = field[1]
                  /\ result[1].amount = parseFloat(CleanAmount(field[k]))
                  /\ result[1].category = (IF k >= 3 THEN field[2] ELSE <<>>)
                  /\ k < 4 => result[1].notes = <<>>
                  /\ k = 4 => result[1].notes = field[3]
                  /\ k = 5 => result[1].notes = field[3] \o <<" ", "|", " ">> \o field[4]
                  /\ k >= 6 =>
                        result[1].notes =
                            Join([i \in 1..(k - 3) |-> field[i + 2]], <<" ", "|", " ">>)

\* an accepted row of five fields with two different notes fields
C7_Witness ==
    /\ Clicked
    /\ Len(RowFields) = 5
    /\ Len(result) = 1
    /\ Trim(RowFields[3]) # Trim(RowFields[4])
    /\ Trim(RowFields[3]) # <<>>
    /\ result[1].category # <<>>

(***************************************************************************)
(* Properties of the positioned pages (specification SpecPositioned).      *)
(***************************************************************************)
\* the date-like headings above a box top, nearer than the bound
HeadingsAbove(document, top) ==
    {h \in 1..Len(document) :
        /\ document[h].tag = "H2"
        /\ IsDateLike(Trim(document[h].text))
        /\ document[h].bottom < top
        /\ top - document[h].bottom < MaxDistance}

\* those of them no other is nearer than
NearestAbove(document, top) ==
    {h \in HeadingsAbove(document, top) :
        \A g \in HeadingsAbove(document, top) : document[g].bottom <= document[h].bottom}

\* C10: strategy 2 dates each row with a nearest date-like heading above it
\* within the bound: every record carries the date of such a heading of
\* some row, every row that has one gives a record dated by one of them,
\* and a row without one gives none
C10_NearestHeaderAbove ==
    Clicked =>
        LET tops    == {AllButtons(doc)[j].top : j \in 1..Len(AllButtons(doc))}
            dates   == [t \in tops |->
                          {parseDate(Trim(doc[h].text)) : h \in NearestAbove(doc, t)}]
            shown   == {result[r].date : r \in 1..Len(result)}
        IN  /\ \A d \in shown : \E t \in tops : d \in dates[t]
            /\ \A t \in tops : dates[t] # {} => dates[t] \cap shown # {}
            /\ (\A t \in tops : HeadingsAbove(doc, t) = {}) => result = <<>>

\* a row with a date-like heading above it beyond the bound or at it, a
\* heading below it, and a nearer and a farther heading within the bound
C10_Witness ==
    /\ Clicked
    /\ Len(result) = 1
    /\ \E j \in 1..Len(AllButtons(doc)) :
          LET top == AllButtons(doc)[j].top
          IN  /\ Cardinality(HeadingsAbove(doc, top)) = 2
              /\ Cardinality(NearestAbove(doc, top)) = 1
              /\ \E h \in HeadingsAbove(doc, top) \ NearestAbove(doc, top) :
                    parseDate(Trim(doc[h].text)) # result[1].date

\* a row whose only date-like headings are at the bound, beyond it, level
\* with it or below it gives no record
C10_WitnessNone ==
    /\ Clicked
    /\ result = <<>>
    /\ Len(AllButtons(doc)) = 1
    /\ \E h \in 1..Len(doc) :
          /\ doc[h].tag = "H2" /\ IsDateLike(Trim(doc[h].text))
          /\ AllButtons(doc)[1].top - doc[h].bottom = MaxDistance

(***************************************************************************)
(* Properties of the exporter (specification SpecCsv).                     *)
(***************************************************************************)
Exported == pc = "exported"

\* the lines of a text: its maximal parts between newline characters
RECURSIVE Lines(_)
Lines(text) ==
    LET NotNewLine(c) == c # NewLine
        n == PrefixLen(text, NotNewLine)
    IN  IF n = Len(text) THEN <<text>>
        ELSE <<SubSeq(text, 1, n)>> \o Lines(SubSeq(text, n + 2, Len(text)))

HasNewLine(text) == \E i \in 1..Len(text) : text[i] = NewLine

NoLineBreaks(records) ==
    \A i \in 1..Len(records) : \A h \in 1..7 : ~HasNewLine(FieldText(records[i], h))

\* a quoted field read from position i (after its opening quote): its value
\* and the position after its closing quote
RECURSIVE ReadField(_, _, _)
ReadField(text, i, acc) ==
    IF i > Len(text) THEN [ok |-> FALSE, value |-> acc, next |-> i]
    ELSE IF text[i] = DoubleQuote
         THEN IF i + 1 <= Len(text) /\ text[i + 1] = DoubleQuote
              THEN ReadField(text, i + 2, Append(acc, DoubleQuote))
              ELSE [ok |-> TRUE, value |-> acc, next |-> i + 1]
         ELSE ReadField(text, i + 1, Append(acc, text[i]))

\* the quoted fields of a row that starts at position i, comma separated
RECURSIVE ReadRow(_, _, _)
ReadRow(text, i, fields) ==
    LET f == ReadField(text, i + 1, <<>>)
    IN  IF ~f.ok THEN [ok |-> FALSE, fields |-> fields, next |-> f.next]
        ELSE IF /\ f.next + 1 <= Len(text)
                /\ text[f.next] = ","
                /\ text[f.next + 1] = DoubleQuote
             THEN ReadRow(text, f.next + 1, Append(fields, f.value))
             ELSE [ok |-> TRUE, fields |-> Append(fields, f.value), next |-> f.next]

\* the rows of quoted fields of a text, whatever separates the rows
RECURSIVE ReadRows(_, _, _)
ReadRows(text, i, rows) ==
    IF i > Len(text) THEN [ok |-> TRUE, rows |-> rows]
    ELSE IF text[i] # DoubleQuote THEN ReadRows(text, i + 1, rows)
    ELSE LET r == ReadRow(text, i, <<>>)
         IN  IF ~r.ok THEN [ok |-> FALSE, rows |-> rows]
             ELSE ReadRows(text, r.next, Append(rows, r.fields))

HeaderLine == Join(CsvHeaders, <<",">>)

\* an optional minus sign, digits, a point and exactly two digits
HasTwoDecimals(text) ==
    LET body == IF Len(text) > 0 /\ text[1] = "-" THEN Tail(text) ELSE text
        n    == Len(body)
    IN  /\ n >= 4
        /\ body[n - 2] = "."
        /\ \A i \in (1..n) \ {n - 2} : IsDigit(body[i])

\* C5 as stated: for N records without a line break in a field the CSV text
\* is N+1 lines separated by the newline character: the header row, then
\* the row of each record in order
C5_LineCount ==
    Exported /\ NoLineBreaks(result) =>
        LET lines == Lines(csv)
        IN  /\ Len(lines) = Len(result) + 1
            /\ lines[1] = HeaderLine
            /\ \A i \in 1..Len(result) :
                  ReadRows(lines[i + 1], 1, <<>>) =
                      [ok |-> TRUE, rows |-> <<[h \in 1..7 |-> FieldText(result[i], h)]>>]

\* C6: the text after the header reads back as one row of quoted fields per
\* record, each of exactly seven fields: id, date, amount, payee, notes,
\* category, import_id of the record, in this order, the amount with exactly
\* two decimal digits
C6_RowFormat ==
    Exported =>
        LET body == SubSeq(csv, Len(HeaderLine) + 1, Len(csv))
            read == ReadRows(body, 1, <<>>)
        IN  /\ SubSeq(csv, 1, Len(HeaderLine)) = HeaderLine
            /\ read.ok
            /\ Len(read.rows) = Len(result)
            /\ \A i \in 1..Len(result) :
                  /\ Len(read.rows[i]) = 7
                  /\ read.rows[i][1] = result[i].id
                  /\ read.rows[i][2] = result[i].date
                  /\ HasTwoDecimals(read.rows[i][3])
                  /\ result[i].amount.scale <= 2 =>
                        parseFloat(read.rows[i][3]) = result[i].amount
                  /\ read.rows[i][4] = result[i].payee
                  /\ read.rows[i][5] = result[i].notes
                  /\ read.rows[i][6] = result[i].category
                  /\ read.rows[i][7] = result[i].import_id

\* two records are exported, one with double quotes and a comma in its
\* payee, one with a negative amount, one with an amount of three decimals
C6_Witness ==
    /\ Exported
    /\ version = "current"
    /\ Len(result) = 2
    /\ \E i \in 1..2 : \E c \in 1..Len(result[i].payee) : result[i].payee[c] = DoubleQuote
    /\ \E i \in 1..2 : IsNegative(result[i].amount)
    /\ \E i \in 1..2 : result[i].amount.scale = 3

(***************************************************************************)
(* The two strategies compared (specification SpecRow).                    *)
(***************************************************************************)
\* the document with the marker attribute on every h2
WithMarkers(document) ==
    [i \in 1..Len(document) |->
        IF document[i].tag = "H2" THEN [document[i] EXCEPT !.marker = TRUE]
        ELSE document[i]]

\* C11: whichever strategy reads the row of a one-row page, the result is
\* what the body of strategy 1 gives for the row and the heading's text:
\* strategy 2 accepts the same rows and builds the same record, rows with an
\* empty first field included
C11_PhasesAgree ==
    Clicked =>
        result = ProcessButtonPhase1(NothingSeen, Trim(doc[1].text),
                                     doc[2].buttons[1]).transactions

\* C12: on a page without the marker whose row lies just below its heading,
\* the result holds every record strategy 1 gives for the same page with
\* the marker on the heading
C12_FallbackRecovers ==
    Clicked /\ ~doc[1].marker =>
        LET marked == Strategy1(WithMarkers(doc)).transactions
        IN  \A i \in 1..Len(marked) : \E j \in 1..Len(result) : result[j] = marked[i]

(***************************************************************************)
(* Properties of the date labels (specification SpecDate).                 *)
(***************************************************************************)
\* the text of the heading of a one-row page, as the script reads it
HeadingText == Trim(doc[1].text)

\* the label is one of the two relative day names
IsRelativeLabel(text) == text \in {TextToday, TextYesterday}

\* C13: a row under a heading whose text is neither a relative day name nor
\* a text the date parser accepts gives no record
C13_UnparseableDateSkipped ==
    Clicked /\ ~IsRelativeLabel(HeadingText) /\ ~DateFromText(HeadingText).valid
        => result = <<>>

\* the canonical form of a calendar day: full English month name, 2-digit
\* day, 4-digit year
Canonical(y, m, d) ==
    MonthNames[m] \o <<" ">>
        \o <<NatToText(d \div 10)[1], NatToText(d % 10)[1]>>
        \o <<",", " ">> \o NatToText(y)

\* the calendar day after the day t
DayAfter(t) ==
    IF t.d < DaysInMonth(t.y, t.m) THEN [t EXCEPT !.d = t.d + 1]
    ELSE IF t.m < 12 THEN [t EXCEPT !.m = t.m + 1, !.d = 1]
    ELSE [t EXCEPT !.y = t.y + 1, !.m = 1, !.d = 1]

\* the text is a month word and a day, with a 4-digit year or without
IsTextualDate(text) ==
    LET ws == Words(text)
    IN  /\ Len(ws) \in {2, 3}
        /\ MonthOf(ws[1]) # 0
        /\ AllDigits(ws[2])
        /\ Len(ws) = 3 => AllDigits(ws[3]) /\ Len(ws[3]) = 4

\* C16: the record of the row under a date label carries the current day
\* for "Today", the day before it for "Yesterday", the label's month and day
\* in the current year for a textual date without a year (when the current
\* year has that day), and the label's own day for a textual date with a
\* year (when that day exists), always in the canonical form
C16_ParseDate ==
    Clicked /\ Len(result) = 1 =>
        LET date == result[1].date
            ws == Words(HeadingText)
        IN  /\ HeadingText = TextToday => date = Canonical(today.y, today.m, today.d)
            /\ HeadingText = TextYesterday =>
                  \E y \in {today.y - 1, today.y}, m \in 1..12, d \in 1..31 :
                      /\ d <= DaysInMonth(y, m)
                      /\ DayAfter([valid |-> TRUE, y |-> y, m |-> m, d |-> d]) = today
                      /\ date = Canonical(y, m, d)
            /\ IsTextualDate(HeadingText) /\ Len(ws) = 2
               /\ DigitsValue(ws[2]) \in 1..DaysInMonth(today.y, MonthOf(ws[1])) =>
                  date = Canonical(today.y, MonthOf(ws[1]), DigitsValue(ws[2]))
            /\ IsTextualDate(HeadingText) /\ Len(ws) = 3
               /\ DigitsValue(ws[2]) \in 1..DaysInMonth(DigitsValue(ws[3]), MonthOf(ws[1])) =>
                  date = Canonical(DigitsValue(ws[3]), MonthOf(ws[1]), DigitsValue(ws[2]))

(***************************************************************************)
(* Properties of the import id (specification SpecId).                     *)
(***************************************************************************)
\* c is the amount x in cents rounded to the nearest integer
IsRoundedCents(c, x) ==
    LET signedMant == IF x.neg THEN -x.mant ELSE x.mant
        diff == 100 * signedMant - c * Pow10(x.scale)
    IN  -Pow10(x.scale) <= 2 * diff /\ 2 * diff <= Pow10(x.scale)

\* C15: the import id of a record is "ws", the record's date, its amount in
\* rounded integer cents and its payee joined by "-", with white space
\* removed and letters in lower case; computing it again from the record
\* gives the same text
C15_ImportId ==
    Clicked /\ Len(result) = 1 =>
        LET r == result[1]
            id == r.import_id
            NotSpace(c) == ~IsSpace(c)
        IN  /\ generateImportId(r.date, r.amount, r.payee) = id
            /\ \A i \in 1..Len(id) : ~IsSpace(id[i]) /\ id[i] \notin Range(Upper)
            /\ \E c \in (-100 * r.amount.mant - 1)..(100 * r.amount.mant + 1) :
                  /\ IsRoundedCents(c, r.amount)
                  /\ id = toLowerCase(SelectSeq(
                        <<"w", "s", "-">> \o r.date \o <<"-">> \o IntToText(c)
                            \o <<"-">> \o r.payee, NotSpace))

\* a record whose payee has white space and capitals inside and whose amount
\* has a fraction of a cent
C15_Witness ==
    /\ Clicked
    /\ Len(result) = 1
    /\ \E i \in 1..Len(result[1].payee) : IsSpace(result[1].payee[i])
    /\ \E i \in 1..Len(result[1].payee) : result[1].payee[i] \in Range(Upper)
    /\ result[1].amount.scale = 3
    /\ result[1].amount.neg

(***************************************************************************)
(* Properties of the sync path (specification SpecSync).                   *)
(***************************************************************************)
\* the step is a click on the export button or on the sync button
IsExportClick == pc = "page" /\ pc' = "clicked"
IsSyncClick ==
    pc' = pc /\ (Len(syncs') = Len(syncs) + 1
                 \/ (alerts' # alerts /\ alerts'[Len(alerts')] = AlertNothingToSync))

\* C14: a click on either button that finds no transaction shows one alert
\* and starts no download, no settings read and no message; a click that
\* finds transactions shows no alert and starts exactly one download
\* (export button) or exactly one settings read (sync button)
C14_EmptyResultAlerts ==
    [][ (ClickExport \/ ClickSync) =>
          IF extractTransactions(doc) = <<>>
          THEN /\ Len(alerts') = Len(alerts) + 1
               /\ alerts'[Len(alerts')] \in {AlertNothingToExport, AlertNothingToSync}
               /\ downloads' = downloads
               /\ syncs' = syncs
          ELSE /\ alerts' = alerts
               /\ \/ /\ IsExportClick
                     /\ downloads' = downloads + 1
                     /\ syncs' = syncs
                  \/ /\ IsSyncClick
                     /\ downloads' = downloads
                     /\ Len(syncs') = Len(syncs) + 1
                     /\ SubSeq(syncs', 1, Len(syncs)) = syncs
                     /\ syncs'[Len(syncs')].stage = "reading"
                     /\ syncs'[Len(syncs')].sent = 0 ]_vars

\* the sync button was clicked on a page without rows, and after rows had
\* loaded both buttons were clicked
C14_Witness ==
    /\ \E a \in 1..Len(alerts) : alerts[a] = AlertNothingToSync
    /\ Len(syncs) = 1
    /\ downloads = 1
    /\ pc = "clicked"

\* the settings have a configuration error for the account name
ConfigurationError(s, accountName) ==
    s.apiUrl = "" \/ s.budgetId = "" \/ s.accountMap[accountName] = ""

\* C17: when the settings read for a sync attempt lack the endpoint URL, the
\* budget identifier or an entry for the account name, the attempt is
\* aborted: one alert is shown, no message is sent, the button and the timers
\* are left as they are; an aborted attempt never has a message, a request
\* at the relay or a response
C17_ConfigurationErrorAborts ==
    /\ [][ \A i \in 1..Len(syncs) :
              /\ syncs[i].stage = "reading"
              /\ syncs'[i].stage # "reading"
              /\ ConfigurationError(settings, syncs[i].accountName)
              => /\ syncs'[i].stage = "aborted"
                 /\ Len(alerts') = Len(alerts) + 1
                 /\ alerts'[Len(alerts')] \in
                       {AlertMissingSettings, AlertNoAccount(syncs[i].accountName)}
                 /\ syncs'[i].sent = 0
                 /\ syncs'[i].request = NoRequest
                 /\ btn' = btn
                 /\ timers' = timers ]_vars
    /\ [](\A i \in 1..Len(syncs) :
              syncs[i].stage = "aborted" =>
                  /\ syncs[i].sent = 0
                  /\ syncs[i].posts = 0
                  /\ syncs[i].answers = 0
                  /\ syncs[i].request = NoRequest)

\* an attempt was aborted for a missing budget identifier while the button
\* shows the label of an earlier attempt in flight
C17_Witness ==
    /\ Len(syncs) = 2
    /\ syncs[1].stage = "fetching"
    /\ syncs[2].stage = "aborted"
    /\ settings.budgetId = ""
    /\ btn.text = TextSyncing
    /\ alerts = <<AlertMissingSettings>>

\* the notes of an entry: the non-empty ones of category and notes, the
\* category first, " | " between the two
IsJoinedNotes(text, category, notes) ==
    IF category = <<>> THEN text = notes
    ELSE IF notes = <<>> THEN text = category
    ELSE text = category \o <<" ", "|", " ">> \o notes

\* C18: an attempt that passed the configuration checks has sent exactly one
\* message; its transactions list has one entry per record, in the order
\* of the records, with the amount in rounded integer cents, the payee and
\* the import id unchanged, and the notes joined from category and notes
C18_RelayMessage ==
    \A i \in 1..Len(syncs) :
        syncs[i].stage \notin {"reading", "aborted"} =>
            LET txs == syncs[i].transactions
                sent == syncs[i].request.transactions
            IN  /\ syncs[i].sent = 1
                /\ syncs[i].request.action = "syncToActual"
                /\ Len(sent) = Len(txs)
                /\ \A k \in 1..Len(txs) :
                      /\ IsRoundedCents(sent[k].amount, txs[k].amount)
                      /\ sent[k].payee_name = txs[k].payee
                      /\ sent[k].imported_id = txs[k].import_id
                      /\ IsJoinedNotes(sent[k].notes, txs[k].category, txs[k].notes)

\* a message with three entries was sent: one with a category alone, one
\* with a category and a note, one with a note alone
C18_Witness ==
    \E i \in 1..Len(syncs) :
        /\ syncs[i].stage = "sent"
        /\ Len(syncs[i].request.transactions) = 3
        /\ \E k \in 1..3 : syncs[i].transactions[k].category # <<>>
                           /\ syncs[i].transactions[k].notes = <<>>
        /\ \E k \in 1..3 : syncs[i].transactions[k].category # <<>>
                           /\ syncs[i].transactions[k].notes # <<>>
        /\ \E k \in 1..3 : syncs[i].transactions[k].category = <<>>
                           /\ syncs[i].transactions[k].notes # <<>>

\* the text names the status code and ends with the body of the response
CarriesStatusAndBody(error, outcome) ==
    LET code == NatToText(outcome.status)
    IN  /\ \E k \in 1..(Len(error) - Len(code) + 1) :
              SubSeq(error, k, k + Len(code) - 1) = code
        /\ Len(error) >= Len(outcome.body)
        /\ SubSeq(error, Len(error) - Len(outcome.body) + 1, Len(error)) = outcome.body

\* C19: for a message of the content script the relay makes one POST and,
\* once the fetch has settled, has answered once; the answer is a success
\* with the data exactly for a 2xx response with a JSON body, and a failure
\* with an error text for a network failure, a non-2xx response (the text
\* carries status and body) and a 2xx response with another body; a
\* message with another action gets no request and changes no attempt
C19_RelayAnswersOnce ==
    /\ [](\A i \in 1..Len(syncs) :
            /\ syncs[i].posts <= 1
            /\ syncs[i].answers <= syncs[i].posts
            /\ syncs[i].stage = "fetching" => syncs[i].posts = 1 /\ syncs[i].answers = 0
            /\ syncs[i].stage \in {"answered", "shown", "done"} =>
                  LET o == syncs[i].outcome
                      r == syncs[i].response
                      is2xx == ~o.rejected /\ o.status \in 200..299
                  IN  /\ syncs[i].posts = 1
                      /\ syncs[i].answers = 1
                      /\ r.success <=> (is2xx /\ o.json)
                      /\ r.success => r.data = o.body /\ r.error = <<>>
                      /\ ~r.success => r.error # <<>>
                      /\ ~o.rejected /\ ~is2xx => CarriesStatusAndBody(r.error, o))
    /\ [](foreign.posts = 0)
    /\ [][foreign.delivered' # foreign.delivered => syncs' = syncs]_vars
    /\ [](\A i \in 1..Len(syncs) : syncs[i].stage # "ignored")

\* two attempts were answered, one with a success and one with a failure
\* that names status 404, and a message with another action was delivered
C19_Witness ==
    /\ Len(syncs) = 2
    /\ syncs[1].stage \in {"answered", "shown", "done"}
    /\ syncs[2].stage \in {"answered", "shown", "done"}
    /\ syncs[1].response.success
    /\ ~syncs[2].response.success
    /\ syncs[2].outcome.status = 404
    /\ foreign.delivered = 1

\* no settings read, message, response or timer is pending
Quiescent ==
    /\ timers = <<>>
    /\ \A i \in 1..Len(syncs) : syncs[i].stage \in {"aborted", "done"}

\* C20: once every pending response and timer has fired the sync button
\* shows the label and the style it was created with
C20_ButtonRestored == Quiescent => btn = SyncButton

(***************************************************************************)
(* Properties of the scroll-to-load step (specifications SpecScroll and    *)
(* SpecScrollFair).                                                        *)
(***************************************************************************)

\* C21: whatever heights the page shows, autoScrollToLoadAll scrolls to the
\* bottom and waits at most 200 times, and it ends: it returns, with the
\* page scrolled back to the top.
C21_ScrollTerminates ==
    /\ [](scroll.scrolls <= 200)
    /\ [](scroll.pc = "returned" => scroll.at = "top")
    /\ <>(scroll.pc = "returned")

\* the call has returned after 200 waits, the page grew at every one
C21_GrewEveryTime ==
    /\ scroll.pc = "returned"
    /\ scroll.at = "top"
    /\ scroll.scrolls = 200
    /\ scroll.height = 201
    /\ scroll.unchangedCount = 0

\* the loop is left before the attempt cap
LeftEarly(l) == l.pc = "settling" /\ l.scrollAttempts < maxScrollAttempts

\* C22: an observation whose height is larger than the previous one resets
\* the run of no-growth observations to zero and the loop goes on (up to the
\* cap); an observation whose height is equal or smaller extends the run by
\* one, and the loop is left before the cap exactly when the run reaches 3.
C22_NoGrowthRun ==
    [][scroll.pc = "waiting" =>
          IF scroll'.height > scroll.previousHeight
          THEN scroll'.unchangedCount = 0 /\ ~LeftEarly(scroll')
          ELSE /\ scroll'.unchangedCount = scroll.unchangedCount + 1
               /\ LeftEarly(scroll') <=> scroll'.unchangedCount >= 3]_vars

(***************************************************************************)
(* Properties of the button placement (specification SpecPlace).           *)
(***************************************************************************)

\* a settings callback ran: one read less is in flight
IsSettingsCallback == place'.reads + place'.stale < place.reads + place.stale

\* what the document holds of the extension, and the heading
Document(p) == <<p.title, p.containers, p.exportBtns, p.syncBtns>>

\* C23: however the initial timer, the observers, the URL-change timers
\* and the settings callbacks interleave, the document holds at most one
\* ws-buttons-container, one export button and one sync button, and a
\* settings callback that finds the container already inserted leaves the
\* document as it is.
C23_PlacedOnce ==
    /\ [](place.containers <= 1 /\ place.exportBtns <= 1 /\ place.syncBtns <= 1)
    /\ [][IsSettingsCallback /\ place.containers > 0 =>
            Document(place') = Document(place)]_vars

\* two buttons are in place and a settings callback came too late
C23_LateCallback ==
    /\ place.late
    /\ place.containers = 1
    /\ place.exportBtns = 1
    /\ place.syncBtns = 1

====
